---------------------------- MODULE Spec2Model ----------------------------
(***************************************************************************)
(* A model of balena-compose-parse (src/src/compose.ts, the current        *)
(* version of the file: lines 305-835).                                    *)
(*                                                                         *)
(* JavaScript values are modelled as tagged records:                       *)
(*   [t |-> "undef"], [t |-> "null"], [t |-> "num", n |-> 0],              *)
(*   [t |-> "dec", i |-> 2, f |-> 1] (the number 2.1),                     *)
(*   [t |-> "bool", b |-> FALSE], [t |-> "str", s |-> <<"A", "=">>],       *)
(*   [t |-> "list", items |-> <<...>>], [t |-> "dict", pairs |-> <<...>>]. *)
(* The text of a string, and every object key, is a sequence of            *)
(* one-character strings, so that split, join, trim and the label pattern  *)
(* are computed character by character.  A plain object (dict) is the      *)
(* sequence of its <<key, value>> pairs in insertion order, which is the   *)
(* order lodash and Object.entries iterate in.                             *)
(***************************************************************************)
EXTENDS Integers, Sequences, FiniteSets, TLC

(***************************************************************************)
(* Bounds of the model.                                                    *)
(***************************************************************************)
MaxStrLen == 4
MaxItems == 2

(***************************************************************************)
(* Text helpers: String.prototype.indexOf, split, join, trim.              *)
(***************************************************************************)
WhiteSpace == {" ", "\t", "\n", "\r"}

RECURSIVE IndexFrom(_, _, _)
IndexFrom(s, ch, i) ==
    IF i > Len(s) THEN 0
    ELSE IF s[i] = ch THEN i
    ELSE IndexFrom(s, ch, i + 1)

\* 1-based position of the first ch in s, 0 when there is none
\* (indexOf's -1).
IndexOf(s, ch) == IndexFrom(s, ch, 1)

RECURSIVE split(_, _)
split(s, sep) ==
    LET p == IndexOf(s, sep)
    IN  IF p = 0 THEN <<s>>
        ELSE <<SubSeq(s, 1, p - 1)>> \o split(SubSeq(s, p + 1, Len(s)), sep)

RECURSIVE join(_, _)
join(parts, sep) ==
    IF Len(parts) = 0 THEN <<>>
    ELSE IF Len(parts) = 1 THEN parts[1]
    ELSE parts[1] \o <<sep>> \o join(Tail(parts), sep)

RECURSIVE trimStart(_)
trimStart(s) ==
    IF Len(s) > 0 /\ s[1] \in WhiteSpace THEN trimStart(Tail(s)) ELSE s

RECURSIVE trimEnd(_)
trimEnd(s) ==
    IF Len(s) > 0 /\ s[Len(s)] \in WhiteSpace
    THEN trimEnd(SubSeq(s, 1, Len(s) - 1))
    ELSE s

trim(s) == trimEnd(trimStart(s))

(***************************************************************************)
(* JavaScript values.                                                      *)
(***************************************************************************)
Undefined == [t |-> "undef"]
Null == [t |-> "null"]
Str(s) == [t |-> "str", s |-> s]
Num(n) == [t |-> "num", n |-> n]
Dec(i, f) == [t |-> "dec", i |-> i, f |-> f]
Bool(b) == [t |-> "bool", b |-> b]
List(items) == [t |-> "list", items |-> items]
Dict(pairs) == [t |-> "dict", pairs |-> pairs]

Digit(d) == CASE d = 0 -> "0" [] d = 1 -> "1" [] d = 2 -> "2" [] d = 3 -> "3"
              [] d = 4 -> "4" [] d = 5 -> "5" [] d = 6 -> "6" [] d = 7 -> "7"
              [] d = 8 -> "8" [] d = 9 -> "9"

RECURSIVE NatText(_)
NatText(n) == IF n < 10 THEN <<Digit(n)>> ELSE NatText(n \div 10) \o <<Digit(n % 10)>>

\* The text of an integer as Number.prototype.toString gives it.
IntText(n) == IF n < 0 THEN <<"-">> \o NatText(0 - n) ELSE NatText(n)

\* ToBoolean: what `if (v)`, `!v` and `v ? a : b` test.
Truthy(v) ==
    CASE v.t = "undef" -> FALSE
      [] v.t = "null" -> FALSE
      [] v.t = "num" -> v.n # 0
      [] v.t = "dec" -> TRUE
      [] v.t = "bool" -> v.b
      [] v.t = "str" -> Len(v.s) > 0
      [] OTHER -> TRUE

\* ToString of a primitive: what '' + v and `${v}` give.
ToText(v) ==
    CASE v.t = "undef" -> <<"u", "n", "d", "e", "f", "i", "n", "e", "d">>
      [] v.t = "null" -> <<"n", "u", "l", "l">>
      [] v.t = "num" -> IntText(v.n)
      [] v.t = "dec" -> IntText(v.i) \o <<".", Digit(v.f)>>
      [] v.t = "bool" -> IF v.b THEN <<"t", "r", "u", "e">>
                         ELSE <<"f", "a", "l", "s", "e">>
      [] v.t = "str" -> v.s

(***************************************************************************)
(* Plain objects as sequences of <<key, value>> pairs.                     *)
(***************************************************************************)
keys(pairs) == [i \in 1..Len(pairs) |-> pairs[i][1]]

KeySet(pairs) == {pairs[i][1] : i \in 1..Len(pairs)}

HasKey(pairs, k) == \E i \in 1..Len(pairs) : pairs[i][1] = k

\* obj[k] for a key the object has.
Lookup(pairs, k) ==
    LET i == CHOOSE j \in 1..Len(pairs) : pairs[j][1] = k IN pairs[i][2]

\* obj[k] = v: an existing key keeps its place, a new key is appended.
SetKey(pairs, k, v) ==
    IF HasKey(pairs, k)
    THEN [i \in 1..Len(pairs) |-> IF pairs[i][1] = k THEN <<k, v>> ELSE pairs[i]]
    ELSE Append(pairs, <<k, v>>)

\* _.fromPairs: assigns the pairs one after the other.
RECURSIVE fromPairsInto(_, _)
fromPairsInto(acc, pairs) ==
    IF Len(pairs) = 0 THEN acc
    ELSE fromPairsInto(SetKey(acc, pairs[1][1], pairs[1][2]), Tail(pairs))

fromPairs(pairs) == fromPairsInto(<<>>, pairs)

(***************************************************************************)
(* normalizeKeyValuePairs                                                  *)
(***************************************************************************)
\* The mapping branch's callback: [key, value ? ('' + value).trim() : ''].
normalizeDictPair(pair) ==
    <<pair[1], IF Truthy(pair[2]) THEN Str(trim(ToText(pair[2]))) ELSE Str(<<>>)>>

\* A variant of splitListEntry that takes split's second part as the value
\* and loses what follows a second separator.
splitListEntrySecondPart(val, sep) ==
    LET parts == split(val.s, sep)
    IN  <<Head(parts), IF Len(parts) > 1 THEN parts[2] ELSE <<>>>>

\* The list branch's first callback: val.split(sep), then
\* [parts.shift(), parts.join('=')].
splitListEntry(val, sep) ==
    LET parts == split(val.s, sep)
    IN  <<Head(parts), join(Tail(parts), "=")>>

\* The list branch's second callback: [key.trim(), value ? value.trim() : ''].
trimListPair(pair) ==
    <<trim(pair[1]), IF Len(pair[2]) > 0 THEN Str(trim(pair[2])) ELSE Str(<<>>)>>

\* A variant of normalizeKeyValuePairs that leaves out the entries whose
\* value is empty.
normalizeKeyValuePairsDropsEmpty(obj, sep) ==
    LET all == IF ~Truthy(obj) THEN <<>>
               ELSE IF obj.t # "list"
               THEN [i \in 1..Len(obj.pairs) |-> normalizeDictPair(obj.pairs[i])]
               ELSE [i \in 1..Len(obj.items) |->
                       trimListPair(splitListEntry(obj.items[i], sep))]
    IN  Dict(fromPairs(SelectSeq(all, LAMBDA pr : pr[2] # Str(<<>>))))

normalizeKeyValuePairs(obj, sep) ==
    IF ~Truthy(obj) THEN Dict(<<>>)
    ELSE IF obj.t # "list"
    THEN Dict(fromPairs([i \in 1..Len(obj.pairs) |-> normalizeDictPair(obj.pairs[i])]))
    ELSE Dict(fromPairs([i \in 1..Len(obj.items) |->
                            trimListPair(splitListEntry(obj.items[i], sep))]))

(***************************************************************************)
(* Objects with named properties: property names are texts too.            *)
(***************************************************************************)
F_version == <<"v", "e", "r", "s", "i", "o", "n">>
F_services == <<"s", "e", "r", "v", "i", "c", "e", "s">>
F_networks == <<"n", "e", "t", "w", "o", "r", "k", "s">>
F_volumes == <<"v", "o", "l", "u", "m", "e", "s">>
F_image == <<"i", "m", "a", "g", "e">>
F_build == <<"b", "u", "i", "l", "d">>
F_context == <<"c", "o", "n", "t", "e", "x", "t">>
F_dockerfile == <<"d", "o", "c", "k", "e", "r", "f", "i", "l", "e">>
F_args == <<"a", "r", "g", "s">>
F_labels == <<"l", "a", "b", "e", "l", "s">>
F_tag == <<"t", "a", "g">>
F_depends_on == <<"d", "e", "p", "e", "n", "d", "s", "_", "o", "n">>
F_environment == <<"e", "n", "v", "i", "r", "o", "n", "m", "e", "n", "t">>
F_env_file == <<"e", "n", "v", "_", "f", "i", "l", "e">>
F_extra_hosts == <<"e", "x", "t", "r", "a", "_", "h", "o", "s", "t", "s">>
F_ports == <<"p", "o", "r", "t", "s">>

\* _.isObject: arrays and plain objects.
isObject(v) == v.t \in {"dict", "list"}

\* o.name: undefined when o has no such property.
Get(o, name) ==
    IF o.t = "dict" /\ HasKey(o.pairs, name) THEN Lookup(o.pairs, name) ELSE Undefined

\* o.name = v
Set(o, name, v) == Dict(SetKey(o.pairs, name, v))

\* _.keys(o): [] for undefined.
keysOf(o) == IF o.t = "dict" THEN keys(o.pairs) ELSE <<>>

\* The least element of a non-empty set of integers.
Min(S) == CHOOSE i \in S : \A j \in S : i <= j

(***************************************************************************)
(* Errors.                                                                 *)
(***************************************************************************)
NoError == [kind |-> "none", msg |-> "", arg |-> <<>>]

ValidationError(msg, arg) == [kind |-> "ValidationError", msg |-> msg, arg |-> arg]

InternalInconsistencyError ==
    [kind |-> "InternalInconsistencyError", msg |-> "", arg |-> <<>>]

PlainError(msg) == [kind |-> "Error", msg |-> msg, arg |-> <<>>]

\* The result of a step that mutates an object and may throw.
Ok(val) == [val |-> val, err |-> NoError]

Thrown(val, err) == [val |-> val, err |-> err]

\* Runs Step on r's object unless an earlier step threw.
Then(r, Step(_)) == IF r.err # NoError THEN r ELSE Step(r.val)

(***************************************************************************)
(* validateLabels, normalizeNetwork, normalizeVolume                       *)
(***************************************************************************)
\* The characters of /^[a-zA-Z0-9.-]+$/.
LabelChars ==
    {"a", "b", "c", "d", "e", "f", "g", "h", "i", "j", "k", "l", "m",
     "n", "o", "p", "q", "r", "s", "t", "u", "v", "w", "x", "y", "z",
     "A", "B", "C", "D", "E", "F", "G", "H", "I", "J", "K", "L", "M",
     "N", "O", "P", "Q", "R", "S", "T", "U", "V", "W", "X", "Y", "Z",
     "0", "1", "2", "3", "4", "5", "6", "7", "8", "9", ".", "-"}

\* A variant of LabelNameOk that also lets the underscore through (\w).
LabelNameOkWordChars(name) ==
    Len(name) > 0 /\ \A i \in 1..Len(name) : name[i] \in LabelChars \cup {"_"}

\* /^[a-zA-Z0-9.-]+$/.test(name)
LabelNameOk(name) == Len(name) > 0 /\ \A i \in 1..Len(name) : name[i] \in LabelChars

\* Throws for the first key that does not match.
validateLabels(labels) ==
    LET bad == {i \in 1..Len(labels.pairs) : ~LabelNameOk(labels.pairs[i][1])}
    IN  IF bad = {} THEN NoError
        ELSE ValidationError("Invalid label name", labels.pairs[Min(bad)][1])

\* The shared body of normalizeNetwork and normalizeVolume: labels are
\* assigned before they are validated.
normalizeLabelsOf(entity) ==
    IF Truthy(Get(entity, F_labels))
    THEN LET labels == normalizeKeyValuePairs(Get(entity, F_labels), "=")
         IN  Thrown(Set(entity, F_labels, labels), validateLabels(labels))
    ELSE Ok(entity)

normalizeNetwork(network) == normalizeLabelsOf(network)

normalizeVolume(volume) == normalizeLabelsOf(volume)

\* _.mapValues(obj, Fn) with a callback that mutates its argument and may
\* throw: the values before the throwing one are normalized, the later ones
\* untouched.
mapValues(obj, Fn(_)) ==
    LET pairs == obj.pairs
        res == [i \in 1..Len(pairs) |-> Fn(pairs[i][2])]
        bad == {i \in 1..Len(pairs) : res[i].err # NoError}
    IN  IF bad = {}
        THEN Ok(Dict([i \in 1..Len(pairs) |-> <<pairs[i][1], res[i].val>>]))
        ELSE Thrown(Dict([i \in 1..Len(pairs) |->
                            IF i <= Min(bad) THEN <<pairs[i][1], res[i].val>>
                            ELSE pairs[i]]),
                    res[Min(bad)].err)

(***************************************************************************)
(* preflight                                                               *)
(***************************************************************************)
\* A variant of orEmptyObject that keeps every value as it is.
orEmptyObjectKeepsNull(v) == v

\* (n) => n || {}
orEmptyObject(v) == IF Truthy(v) THEN v ELSE Dict(<<>>)

nullsToEmptyObjects(data, name) ==
    IF isObject(Get(data, name))
    THEN Set(data, name,
             Dict([i \in 1..Len(Get(data, name).pairs) |->
                     <<Get(data, name).pairs[i][1],
                       orEmptyObject(Get(data, name).pairs[i][2])>>]))
    ELSE data

preflight(version, data) ==
    nullsToEmptyObjects(nullsToEmptyObjects(data, F_networks), F_volumes)

(***************************************************************************)
(* path.normalize, path.isAbsolute and path.parse(p).dir (POSIX).          *)
(***************************************************************************)
\* normalizeString: drops empty and "." segments and resolves ".."; a ".."
\* with nothing to remove is kept only in a relative path.
RECURSIVE normalizeSegments(_, _, _)
normalizeSegments(segs, res, allowAboveRoot) ==
    IF Len(segs) = 0 THEN res
    ELSE LET seg == Head(segs)
         IN  IF seg = <<>> \/ seg = <<".">>
             THEN normalizeSegments(Tail(segs), res, allowAboveRoot)
             ELSE IF seg = <<".", ".">>
             THEN IF Len(res) > 0 /\ res[Len(res)] # <<".", ".">>
                  THEN normalizeSegments(Tail(segs), SubSeq(res, 1, Len(res) - 1),
                                         allowAboveRoot)
                  ELSE IF allowAboveRoot
                  THEN normalizeSegments(Tail(segs), Append(res, seg), allowAboveRoot)
                  ELSE normalizeSegments(Tail(segs), res, allowAboveRoot)
             ELSE normalizeSegments(Tail(segs), Append(res, seg), allowAboveRoot)

isAbsolute(p) == Len(p) > 0 /\ p[1] = "/"

pathNormalize(p) ==
    IF Len(p) = 0 THEN <<".">>
    ELSE LET trailing == p[Len(p)] = "/"
             body == join(normalizeSegments(split(p, "/"), <<>>, ~isAbsolute(p)), "/")
             rel == IF Len(body) = 0 /\ ~isAbsolute(p) THEN <<".">> ELSE body
             full == IF Len(rel) > 0 /\ trailing THEN rel \o <<"/">> ELSE rel
         IN  IF isAbsolute(p) THEN <<"/">> \o full ELSE full

\* path.parse(p).dir: the text before the separator that precedes the last
\* component (trailing separators are skipped), "/" for a component of the
\* root.
parseDir(p) ==
    LET start == IF isAbsolute(p) THEN 2 ELSE 1
        nonSep == {i \in start..Len(p) : p[i] # "/"}
        end == IF nonSep = {} THEN 0 ELSE CHOOSE i \in nonSep : \A j \in nonSep : j <= i
        seps == {i \in start..(end - 1) : p[i] = "/"}
        last == CHOOSE i \in seps : \A j \in seps : j <= i
    IN  IF seps # {} THEN SubSeq(p, 1, last - 1)
        ELSE IF isAbsolute(p) THEN <<"/">>
        ELSE <<>>

startsWith(s, prefix) == Len(s) >= Len(prefix) /\ SubSeq(s, 1, Len(prefix)) = prefix

includesChar(s, ch) == IndexOf(s, ch) # 0

(***************************************************************************)
(* normalizeService and the functions it calls.                            *)
(***************************************************************************)
\* A variant of normalizeServiceBuild that wraps the build as { context:
\* build } whether or not it is a string.
normalizeServiceBuildAlwaysWraps(service) ==
    IF ~Truthy(Get(service, F_build)) THEN Ok(service)
    ELSE Ok(Set(service, F_build, Dict(<<<<F_context, Get(service, F_build)>>>>)))

\* if (service.build) { ... }: the shorthand, build.args, build.labels.
normalizeServiceBuild(service) ==
    LET build == Get(service, F_build)
        b1 == IF build.t = "str" THEN Dict(<<<<F_context, build>>>>) ELSE build
        b2 == IF Truthy(Get(b1, F_args))
              THEN Set(b1, F_args, normalizeKeyValuePairs(Get(b1, F_args), "="))
              ELSE b1
        labels == normalizeKeyValuePairs(Get(b2, F_labels), "=")
    IN  IF ~Truthy(build) THEN Ok(service)
        ELSE IF Truthy(Get(b2, F_labels))
        THEN Thrown(Set(service, F_build, Set(b2, F_labels, labels)),
                    validateLabels(labels))
        ELSE Ok(Set(service, F_build, b2))

\* _.includes(serviceNames, dep)
includesName(names, dep) ==
    dep.t = "str" /\ \E i \in 1..Len(names) : names[i] = dep.s

\* A variant of validateDependsOn without the check for duplicates.
validateDependsOnAllowsDuplicates(service, serviceNames) ==
    LET deps == Get(service, F_depends_on)
        unknown == {i \in 1..Len(deps.items) : ~includesName(serviceNames, deps.items[i])}
    IN  IF ~Truthy(deps) THEN Ok(service)
        ELSE IF deps.t # "list"
        THEN Thrown(service, ValidationError("Service dependencies must be an array", <<>>))
        ELSE IF unknown # {}
        THEN Thrown(service, ValidationError("Unknown service dependency",
                                             ToText(deps.items[Min(unknown)])))
        ELSE Ok(service)

\* if (service.depends_on) { ... }
validateDependsOn(service, serviceNames) ==
    LET deps == Get(service, F_depends_on)
        unknown == {i \in 1..Len(deps.items) : ~includesName(serviceNames, deps.items[i])}
    IN  IF ~Truthy(deps) THEN Ok(service)
        ELSE IF deps.t # "list"
        THEN Thrown(service, ValidationError("Service dependencies must be an array", <<>>))
        ELSE IF Cardinality({deps.items[i] : i \in 1..Len(deps.items)}) # Len(deps.items)
        THEN Thrown(service, ValidationError("Service dependencies must be unique", <<>>))
        ELSE IF unknown # {}
        THEN Thrown(service, ValidationError("Unknown service dependency",
                                             ToText(deps.items[Min(unknown)])))
        ELSE Ok(service)

\* if (service.environment) { ... }
normalizeServiceEnvironment(service) ==
    IF Truthy(Get(service, F_environment))
    THEN Ok(Set(service, F_environment,
                normalizeKeyValuePairs(Get(service, F_environment), "=")))
    ELSE Ok(service)

\* The three checks of one normalized env_file path.
envFilePathError(envFilePath) ==
    IF isAbsolute(envFilePath)
    THEN ValidationError("Absolute filepath not allowed", envFilePath)
    ELSE IF startsWith(envFilePath, <<".", ".">>)
    THEN ValidationError("Directory traversing not allowed", envFilePath)
    ELSE IF includesChar(envFilePath, "*")
    THEN ValidationError("Wildcards not allowed", envFilePath)
    ELSE NoError

\* A variant of uniqueInOrder that keeps every occurrence.
uniqueInOrderKeepsAll(q) == q

\* [...new Set(paths)]: the first occurrence of each path, in order.
RECURSIVE uniqueInOrder(_)
uniqueInOrder(q) ==
    IF Len(q) = 0 THEN <<>>
    ELSE LET init == uniqueInOrder(SubSeq(q, 1, Len(q) - 1))
             x == q[Len(q)]
         IN  IF \E i \in 1..Len(init) : init[i] = x THEN init ELSE Append(init, x)

\* A variant of normalizeAndValidateFilePath that checks the paths as they
\* are written and normalizes them afterwards.
normalizeAndValidateFilePathChecksRaw(envFile) ==
    LET items == IF envFile.t = "list" THEN envFile.items ELSE <<envFile>>
        paths == [i \in 1..Len(items) |-> Str(pathNormalize(items[i].s))]
        bad == {i \in 1..Len(items) : envFilePathError(items[i].s) # NoError}
    IN  IF bad # {} THEN Thrown(envFile, envFilePathError(items[Min(bad)].s))
        ELSE Ok(List(uniqueInOrder(paths)))

\* Returns the list of normalized paths, or throws for the first path that
\* fails a check.
normalizeAndValidateFilePath(envFile) ==
    LET items == IF envFile.t = "list" THEN envFile.items ELSE <<envFile>>
        paths == [i \in 1..Len(items) |-> Str(pathNormalize(items[i].s))]
        bad == {i \in 1..Len(paths) : envFilePathError(paths[i].s) # NoError}
    IN  IF bad # {} THEN Thrown(envFile, envFilePathError(paths[Min(bad)].s))
        ELSE Ok(List(uniqueInOrder(paths)))

\* if (service.env_file) { ... }
normalizeServiceEnvFile(service) ==
    LET r == normalizeAndValidateFilePath(Get(service, F_env_file))
    IN  IF ~Truthy(Get(service, F_env_file)) THEN Ok(service)
        ELSE IF r.err # NoError THEN Thrown(service, r.err)
        ELSE Ok(Set(service, F_env_file, r.val))

\* A variant of normalizeExtraHostObject that lists the entries from the
\* last key to the first.
normalizeExtraHostObjectReversed(extraHostsObject) ==
    List([i \in 1..Len(extraHostsObject.pairs) |->
            LET pair == extraHostsObject.pairs[Len(extraHostsObject.pairs) + 1 - i]
            IN  Str(pair[1] \o <<":">> \o ToText(pair[2]))])

\* _.map(extraHostsObject, (ip, host) => `${host}:${ip}`)
normalizeExtraHostObject(extraHostsObject) ==
    List([i \in 1..Len(extraHostsObject.pairs) |->
            Str(extraHostsObject.pairs[i][1] \o <<":">>
                \o ToText(extraHostsObject.pairs[i][2]))])

\* if (service.extra_hosts) { if (!_.isArray(...)) ... }
normalizeServiceExtraHosts(service) ==
    LET hosts == Get(service, F_extra_hosts)
    IN  IF Truthy(hosts) /\ hosts.t # "list"
        THEN Ok(Set(service, F_extra_hosts, normalizeExtraHostObject(hosts)))
        ELSE Ok(service)

\* if (service.labels) { ... }: assigned, then validated.
normalizeServiceLabels(service) == normalizeLabelsOf(service)

\* _.map(value, String)
normalizeArrayOfStrings(value) ==
    List([i \in 1..Len(value.items) |-> Str(ToText(value.items[i]))])

\* if (service.ports) { ... }
normalizeServicePorts(service) ==
    IF Truthy(Get(service, F_ports))
    THEN Ok(Set(service, F_ports, normalizeArrayOfStrings(Get(service, F_ports))))
    ELSE Ok(service)

\* A variant of validateServiceVolume that looks the source up among the
\* volume names before it looks for a directory component.
validateServiceVolumeLookupFirst(serviceVolume, volumeNames) ==
    LET colonIndex == IndexOf(serviceVolume, ":")
        source == SubSeq(serviceVolume, 1, colonIndex - 1)
    IN  IF colonIndex = 0 THEN ValidationError("Invalid volume", serviceVolume)
        ELSE IF \A i \in 1..Len(volumeNames) : volumeNames[i] # source
        THEN ValidationError("Missing volume definition for", source)
        ELSE IF parseDir(source) # <<>>
        THEN ValidationError("Bind mounts are not allowed", <<>>)
        ELSE NoError

validateServiceVolume(serviceVolume, volumeNames) ==
    LET colonIndex == IndexOf(serviceVolume, ":")
        source == SubSeq(serviceVolume, 1, colonIndex - 1)
    IN  IF colonIndex = 0 THEN ValidationError("Invalid volume", serviceVolume)
        ELSE IF parseDir(source) # <<>>
        THEN ValidationError("Bind mounts are not allowed", <<>>)
        ELSE IF \A i \in 1..Len(volumeNames) : volumeNames[i] # source
        THEN ValidationError("Missing volume definition for", source)
        ELSE NoError

\* if (service.volumes) { service.volumes.forEach(...) }
validateServiceVolumes(service, volumeNames) ==
    LET vols == Get(service, F_volumes)
        bad == {i \in 1..Len(vols.items) :
                  validateServiceVolume(vols.items[i].s, volumeNames) # NoError}
    IN  IF Truthy(vols) /\ bad # {}
        THEN Thrown(service, validateServiceVolume(vols.items[Min(bad)].s, volumeNames))
        ELSE Ok(service)

\* normalizeService after its first check: the fields in the order the
\* function visits them, stopping at the first throw.
normalizeServiceFields(service, serviceNames, volumeNames) ==
    LET r1 == normalizeServiceBuild(service)
        r2 == Then(r1, LAMBDA s : validateDependsOn(s, serviceNames))
        r3 == Then(r2, normalizeServiceEnvironment)
        r4 == Then(r3, normalizeServiceEnvFile)
        r5 == Then(r4, normalizeServiceExtraHosts)
        r6 == Then(r5, normalizeServiceLabels)
        r7 == Then(r6, normalizeServicePorts)
    IN  Then(r7, LAMBDA s : validateServiceVolumes(s, volumeNames))

\* A variant of normalizeService without the image/build check.
normalizeServiceUnchecked(service, serviceNames, volumeNames) ==
    normalizeServiceFields(service, serviceNames, volumeNames)

normalizeService(service, serviceNames, volumeNames) ==
    IF ~Truthy(Get(service, F_image)) /\ ~Truthy(Get(service, F_build))
    THEN Thrown(service,
                ValidationError("You must specify either an image or a build", <<>>))
    ELSE normalizeServiceFields(service, serviceNames, volumeNames)

(***************************************************************************)
(* parse and createImageDescriptor                                         *)
(***************************************************************************)
DEFAULT_SCHEMA_VERSION == <<"2", ".", "1">>

\* _.toPairs(c.services)
PairsOfServices(doc) ==
    IF Get(doc, F_services).t = "dict" THEN Get(doc, F_services).pairs ELSE <<>>

\* Whether text a sorts before text b: names here differ in their last
\* character, a digit.
TextBefore(a, b) ==
    \E d, e \in 0..9 : a[Len(a)] = Digit(d) /\ b[Len(b)] = Digit(e) /\ d < e

\* Copies o.name to the build config when it is truthy.
copyIfSet(build, o, name) ==
    IF Truthy(Get(o, name)) THEN Set(build, name, Get(o, name)) ELSE build

\* A variant of createImageDescriptor that never sets the tag.
createImageDescriptorNoTag(serviceName, service) ==
    LET image == Get(service, F_image)
        sb == Get(service, F_build)
        b0 == Dict(<<<<F_context, Get(sb, F_context)>>>>)
        b1 == copyIfSet(copyIfSet(copyIfSet(b0, sb, F_dockerfile), sb, F_args),
                        sb, F_labels)
    IN  IF Truthy(image) /\ ~Truthy(sb)
        THEN Ok([serviceName |-> serviceName, image |-> image])
        ELSE IF ~Truthy(sb)
        THEN Thrown([serviceName |-> serviceName, image |-> Undefined],
                    InternalInconsistencyError)
        ELSE Ok([serviceName |-> serviceName, image |-> b1])

createImageDescriptor(serviceName, service) ==
    LET image == Get(service, F_image)
        sb == Get(service, F_build)
        b0 == Dict(<<<<F_context, Get(sb, F_context)>>>>)
        b1 == copyIfSet(copyIfSet(copyIfSet(b0, sb, F_dockerfile), sb, F_args),
                        sb, F_labels)
        b2 == IF Truthy(image) THEN Set(b1, F_tag, image) ELSE b1
    IN  IF Truthy(image) /\ ~Truthy(sb)
        THEN Ok([serviceName |-> serviceName, image |-> image])
        ELSE IF ~Truthy(sb)
        THEN Thrown([serviceName |-> serviceName, image |-> Undefined],
                    InternalInconsistencyError)
        ELSE Ok([serviceName |-> serviceName, image |-> b2])

\* A variant of parse that returns the descriptors sorted by service name
\* instead of in the order of the services map.
parseSortedByName(doc) ==
    LET pairs == PairsOfServices(doc)
        rank(i) == Cardinality({j \in 1..Len(pairs) : TextBefore(pairs[j][1], pairs[i][1])})
        at(k) == CHOOSE i \in 1..Len(pairs) : rank(i) = k - 1
        res == [k \in 1..Len(pairs) |->
                  createImageDescriptor(pairs[at(k)][1], pairs[at(k)][2])]
        bad == {i \in 1..Len(pairs) : res[i].err # NoError}
    IN  IF Get(doc, F_version) # Str(DEFAULT_SCHEMA_VERSION)
        THEN Thrown(<<>>, PlainError("Unsupported composition version"))
        ELSE IF bad # {} THEN Thrown(<<>>, res[Min(bad)].err)
        ELSE Ok([i \in 1..Len(pairs) |-> res[i].val])

\* Returns the list of descriptors, or throws what the first failing service
\* throws.
parse(doc) ==
    LET pairs == PairsOfServices(doc)
        res == [i \in 1..Len(pairs) |-> createImageDescriptor(pairs[i][1], pairs[i][2])]
        bad == {i \in 1..Len(pairs) : res[i].err # NoError}
    IN  IF Get(doc, F_version) # Str(DEFAULT_SCHEMA_VERSION)
        THEN Thrown(<<>>, PlainError("Unsupported composition version"))
        ELSE IF bad # {} THEN Thrown(<<>>, res[Min(bad)].err)
        ELSE Ok([i \in 1..Len(pairs) |-> res[i].val])

(***************************************************************************)
(* expandContext: readEnvFilesFromComposition,                             *)
(* readAndNormalizeExpandEnvFile and assignExpandedEnvFilesToComposition.  *)
(***************************************************************************)
\* The names every plain object inherits from Object.prototype: `name in
\* obj` is true for them whatever obj's own properties are.
ObjectPrototypeNames ==
    { <<"c", "o", "n", "s", "t", "r", "u", "c", "t", "o", "r">>,
      <<"t", "o", "S", "t", "r", "i", "n", "g">>,
      <<"v", "a", "l", "u", "e", "O", "f">>,
      <<"h", "a", "s", "O", "w", "n", "P", "r", "o", "p", "e", "r", "t", "y">>,
      <<"i", "s", "P", "r", "o", "t", "o", "t", "y", "p", "e", "O", "f">>,
      <<"p", "r", "o", "p", "e", "r", "t", "y", "I", "s", "E", "n", "u", "m", "e", "r", "a", "b", "l", "e">>,
      <<"t", "o", "L", "o", "c", "a", "l", "e", "S", "t", "r", "i", "n", "g">>,
      <<"_", "_", "p", "r", "o", "t", "o", "_", "_">>,
      <<"_", "_", "d", "e", "f", "i", "n", "e", "G", "e", "t", "t", "e", "r", "_", "_">>,
      <<"_", "_", "d", "e", "f", "i", "n", "e", "S", "e", "t", "t", "e", "r", "_", "_">>,
      <<"_", "_", "l", "o", "o", "k", "u", "p", "G", "e", "t", "t", "e", "r", "_", "_">>,
      <<"_", "_", "l", "o", "o", "k", "u", "p", "S", "e", "t", "t", "e", "r", "_", "_">> }

\* key in obj
In(key, obj) == HasKey(obj.pairs, key) \/ key \in ObjectPrototypeNames

\* delete o.name
Delete(o, name) == Dict(SelectSeq(o.pairs, LAMBDA pr : pr[1] # name))

\* let envFilePaths = service.env_file; if (!!envFilePaths) { if
\* (!Array.isArray(envFilePaths)) envFilePaths = [envFilePaths]; ... }: the
\* paths the loops visit, none when env_file is falsy.
envFilePathsOf(service) ==
    IF ~Truthy(Get(service, F_env_file)) THEN <<>>
    ELSE IF Get(service, F_env_file).t = "list" THEN Get(service, F_env_file).items
    ELSE <<Get(service, F_env_file)>>

\* The 'line' listener, line after line: for each entry of
\* normalizeKeyValuePairs([line]), intermediateEnv[key] = val.
RECURSIVE readLines(_, _)
readLines(intermediateEnv, lines) ==
    IF Len(lines) = 0 THEN intermediateEnv
    ELSE readLines(fromPairsInto(intermediateEnv,
                                 normalizeKeyValuePairs(List(<<Str(Head(lines))>>), "=").pairs),
                   Tail(lines))

\* What readAndNormalizeExpandEnvFile resolves to for a stream of these lines.
readAndNormalizeExpandEnvFile(lines) == Dict(readLines(<<>>, lines))

\* Object.entries(envFileVariables[envFilePath]): for a path that is no own
\* key the lookup gives the inherited function, which has no entries.
fileEntries(envFileVariables, envFilePath) ==
    IF HasKey(envFileVariables.pairs, envFilePath)
    THEN Lookup(envFileVariables.pairs, envFilePath).pairs
    ELSE <<>>

\* for (const [key, value] of entries) if (!(key in environment))
\* environment[key] = value
RECURSIVE mergeEntries(_, _)
mergeEntries(environment, entries) ==
    IF Len(entries) = 0 THEN environment
    ELSE mergeEntries(IF In(Head(entries)[1], environment) THEN environment
                      ELSE Set(environment, Head(entries)[1], Head(entries)[2]),
                      Tail(entries))

\* for (const envFilePath of envFilePaths) { ... }
RECURSIVE mergeEnvFiles(_, _, _)
mergeEnvFiles(environment, envFilePaths, envFileVariables) ==
    IF Len(envFilePaths) = 0 THEN environment
    ELSE mergeEnvFiles(mergeEntries(environment,
                                    fileEntries(envFileVariables, Head(envFilePaths).s)),
                       Tail(envFilePaths), envFileVariables)

\* service.environment ?? {}
environmentOrEmpty(service) ==
    IF Get(service, F_environment).t \in {"undef", "null"} THEN Dict(<<>>)
    ELSE Get(service, F_environment)

\* The body of assignExpandedEnvFilesToComposition's loop without the
\* delete.
assignServiceEnvironment(service, envFileVariables) ==
    IF Truthy(Get(service, F_env_file))
    THEN Set(service, F_environment,
             mergeEnvFiles(environmentOrEmpty(service), envFilePathsOf(service),
                           envFileVariables))
    ELSE service

\* A variant of assignService that deletes env_file only from the services
\* whose files it merged.
assignServiceDeletesMerged(service, envFileVariables) ==
    IF Truthy(Get(service, F_env_file))
    THEN Delete(assignServiceEnvironment(service, envFileVariables), F_env_file)
    ELSE service

\* The body of assignExpandedEnvFilesToComposition's loop for one service.
assignService(service, envFileVariables) ==
    Delete(assignServiceEnvironment(service, envFileVariables), F_env_file)

assignExpandedEnvFilesToComposition(composition, envFileVariables) ==
    Set(composition, F_services,
        Dict([i \in 1..Len(Get(composition, F_services).pairs) |->
                <<Get(composition, F_services).pairs[i][1],
                  assignService(Get(composition, F_services).pairs[i][2],
                                envFileVariables)>>]))

(***************************************************************************)
(* expand(template, lookup): variable references in a string value.        *)
(* The implementation is not among the sources; the operators follow       *)
(* section 4.3 of the specification and the cases of the 'interpolation'   *)
(* tests.                                                                  *)
(***************************************************************************)
ExpansionError(message) == [kind |-> "ExpansionError", msg |-> message, arg |-> <<>>]

\* The characters a variable name is made of; the names of the model are
\* made of these three.
NameChars == {"V", "E", "U"}

Dollars(n) == [k \in 1..n |-> "$"]

\* The number of consecutive dollar signs from position i on.
RECURSIVE dollarRun(_, _)
dollarRun(template, i) ==
    IF i <= Len(template) /\ template[i] = "$" THEN 1 + dollarRun(template, i + 1) ELSE 0

\* The longest run of name characters from position i on.
RECURSIVE nameAt(_, _)
nameAt(text, i) ==
    IF i <= Len(text) /\ text[i] \in NameChars
    THEN <<text[i]>> \o nameAt(text, i + 1)
    ELSE <<>>

NoReference == [len |-> 0, name |-> <<>>, op |-> <<>>, payload |-> <<>>]

\* What stands between the braces: NAME, or NAME, an operator and a payload.
bracedReference(inner) ==
    LET name == nameAt(inner, 1)
        rest == SubSeq(inner, Len(name) + 1, Len(inner))
        op == IF Len(rest) >= 2 /\ rest[1] = ":" /\ rest[2] \in {"-", "?"}
              THEN <<":", rest[2]>>
              ELSE IF Len(rest) >= 1 /\ rest[1] \in {"-", "?"} THEN <<rest[1]>>
              ELSE <<>>
    IN  IF name = <<>> \/ (rest # <<>> /\ op = <<>>)
        THEN NoReference
        ELSE [len |-> Len(inner) + 2, name |-> name, op |-> op,
              payload |-> SubSeq(rest, Len(op) + 1, Len(rest))]

\* The reference that starts at position j, after the dollar signs: a bare
\* NAME or {...} up to the next closing brace; len is the length of its text,
\* 0 when no reference starts there.
referenceAt(template, j) ==
    IF j > Len(template) THEN NoReference
    ELSE IF template[j] \in NameChars
    THEN [len |-> Len(nameAt(template, j)), name |-> nameAt(template, j),
          op |-> <<>>, payload |-> <<>>]
    ELSE IF template[j] = "{" /\ \E k \in (j + 1)..Len(template) : template[k] = "}"
    THEN bracedReference(
            SubSeq(template, j + 1,
                   Min({k \in (j + 1)..Len(template) : template[k] = "}"}) - 1))
    ELSE NoReference

\* A variant of substitute in which "-" also replaces an empty value.
substituteDashChecksEmpty(ref, lookup) ==
    LET defined == ref.name \in DOMAIN lookup
        value == IF defined THEN lookup[ref.name] ELSE <<>>
    IN  IF ref.op = <<>> THEN Ok(value)
        ELSE IF ref.op \in {<<"-">>, <<":", "-">>}
        THEN Ok(IF defined /\ value # <<>> THEN value ELSE ref.payload)
        ELSE IF ref.op = <<"?">>
        THEN IF defined THEN Ok(value) ELSE Thrown(<<>>, ExpansionError(ref.payload))
        ELSE IF defined /\ value # <<>> THEN Ok(value)
             ELSE Thrown(<<>>, ExpansionError(ref.payload))

\* A variant of substitute in which "?" also fails for an empty value.
substituteQuestionChecksEmpty(ref, lookup) ==
    LET defined == ref.name \in DOMAIN lookup
        value == IF defined THEN lookup[ref.name] ELSE <<>>
    IN  IF ref.op = <<>> THEN Ok(value)
        ELSE IF ref.op = <<"-">> THEN Ok(IF defined THEN value ELSE ref.payload)
        ELSE IF ref.op = <<":", "-">>
        THEN Ok(IF defined /\ value # <<>> THEN value ELSE ref.payload)
        ELSE IF defined /\ value # <<>> THEN Ok(value)
             ELSE Thrown(<<>>, ExpansionError(ref.payload))

\* What one reference is replaced by, or the error it fails with.
substitute(ref, lookup) ==
    LET defined == ref.name \in DOMAIN lookup
        value == IF defined THEN lookup[ref.name] ELSE <<>>
    IN  IF ref.op = <<>> THEN Ok(value)
        ELSE IF ref.op = <<"-">> THEN Ok(IF defined THEN value ELSE ref.payload)
        ELSE IF ref.op = <<":", "-">>
        THEN Ok(IF defined /\ value # <<>> THEN value ELSE ref.payload)
        ELSE IF ref.op = <<"?">>
        THEN IF defined THEN Ok(value) ELSE Thrown(<<>>, ExpansionError(ref.payload))
        ELSE IF defined /\ value # <<>> THEN Ok(value)
             ELSE Thrown(<<>>, ExpansionError(ref.payload))

\* A variant of escapedReference that keeps every dollar sign.
escapedReferenceKeepsAll(n, text) == Dollars(n) \o text

\* A variant of escapedReference that leaves one dollar sign per pair.
escapedReferenceHalves(n, text) == Dollars(n \div 2) \o text

\* n >= 2 dollar signs before a reference: one dollar sign is dropped and
\* the text of the reference stays as it is.
escapedReference(n, text) == Dollars(n - 1) \o text

\* Dollar signs that no reference follows: each pair gives one dollar sign,
\* a single one stays.
literalDollars(n) == Dollars((n \div 2) + (n % 2))

\* The text in front of what the rest of the template expands to.
prepend(text, r) == IF r.err # NoError THEN r ELSE Ok(text \o r.val)

RECURSIVE expandFrom(_, _, _)
expandFrom(template, i, lookup) ==
    IF i > Len(template) THEN Ok(<<>>)
    ELSE IF template[i] # "$"
    THEN prepend(<<template[i]>>, expandFrom(template, i + 1, lookup))
    ELSE LET n == dollarRun(template, i)
             j == i + n
             ref == referenceAt(template, j)
             rest == expandFrom(template, j + ref.len, lookup)
         IN  IF ref.len = 0 THEN prepend(literalDollars(n), rest)
             ELSE IF n >= 2
             THEN prepend(escapedReference(n, SubSeq(template, j, j + ref.len - 1)), rest)
             ELSE IF substitute(ref, lookup).err # NoError
             THEN substitute(ref, lookup)
             ELSE prepend(substitute(ref, lookup).val, rest)

\* expand: a single pass from left to right.
expand(template, lookup) == expandFrom(template, 1, lookup)

(***************************************************************************)
(* The schema versions (SchemaVersion) and the version strings that        *)
(* normalizeObjectToComposition's switch accepts.                          *)
(***************************************************************************)
v1_0 == <<>>
v2_0 == <<"2">>
v2_1 == <<"2", ".", "1">>

(***************************************************************************)
(* State.                                                                  *)
(***************************************************************************)
VARIABLES
    kvIn,         \* the argument of a call of normalizeKeyValuePairs
    kvOut,        \* what the call returned
    kvPc,         \* "call" before the call, "returned" after it
    input,        \* the document normalize was called with, as it was then
    c,            \* normalizeObjectToComposition's c: the document being normalized
    version,      \* its local variable version
    pc,           \* where the call stands
    svcIdx,       \* the service _.mapValues(services, ...) visits next
    err,          \* the error thrown, NoError while none was
    pass,         \* 1 for the first call, 2 when its result was passed in again
    first,        \* the composition the first call returned
    descriptors,  \* what parse returned
    resolver,     \* whether normalize was called with a fileResolverCb
    files,        \* what the resolver's streams deliver, per path
    envFileVariables, \* readEnvFilesFromComposition's envFileVariables
    fetched,      \* the paths the resolver was called with, in call order
    rdSvc,        \* the service readEnvFilesFromComposition's loop is at
    rdPath,       \* the path of that service its inner loop is at
    caller,       \* the object the caller passed to normalize, as it is now
    rebound,      \* whether c was bound to another object than the caller's
    exIn,         \* the template of a call of expand
    exOut,        \* what the call returned or threw
    exPc          \* "call" before the call, "returned" after it

kvVars == <<kvIn, kvOut, kvPc>>

normVars == <<input, c, version, pc, svcIdx, err, pass, first, descriptors>>

envVars == <<resolver, files, envFileVariables, fetched, rdSvc, rdPath>>

callerVars == <<caller, rebound>>

exVars == <<exIn, exOut, exPc>>

vars ==
    <<kvIn, kvOut, kvPc, input, c, version, pc, svcIdx, err, pass, first, descriptors,
      resolver, files, envFileVariables, fetched, rdSvc, rdPath, caller, rebound,
      exIn, exOut, exPc>>

(***************************************************************************)
(* The key/value normalizer on its own: every list of one entry over a     *)
(* small alphabet, lists and mappings built from pools of entries.         *)
(***************************************************************************)
KVChars == {"A", "=", " "}

Texts(n) == UNION {[1..k -> KVChars] : k \in 0..n}

EntryPool == {<<"A">>, <<"A", "=">>, <<"A", "=", "A">>, <<" ", "A", "=", " ", "A">>,
              <<"=", "A">>, <<"A", "A", "=", "A", "=", "A">>}

KeyPool == {<<"A">>, <<" ", "A">>, <<"A", "=", "A">>}

ValuePool == {Undefined, Null, Num(0), Num(10), Bool(FALSE), Bool(TRUE),
              Str(<<>>), Str(<<" ", "A", "=", " ">>), Str(<<"0">>)}

\* Sequences of at most n elements of S without repetition (a list of
\* unique items, the keys of an object).
UniqueSeqs(S, n) ==
    UNION {{q \in [1..k -> S] : \A i, j \in 1..k : i # j => q[i] # q[j]} : k \in 0..n}

KVLists ==
    {List(<<Str(e)>>) : e \in Texts(MaxStrLen)}
    \cup {List([i \in 1..Len(q) |-> Str(q[i])]) : q \in UniqueSeqs(EntryPool, MaxItems)}

KVDicts ==
    UNION {{Dict([i \in 1..Len(ks) |-> <<ks[i], vs[i]>>]) : vs \in [1..Len(ks) -> ValuePool]}
           : ks \in UniqueSeqs(KeyPool, MaxItems)}

KVInputs == KVLists \cup KVDicts \cup {Undefined, Null}

NormIdle ==
    /\ input = Undefined
    /\ c = Undefined
    /\ version = v1_0
    /\ pc = "idle"
    /\ svcIdx = 0
    /\ err = NoError
    /\ pass = 0
    /\ first = Undefined
    /\ descriptors = <<>>
    /\ caller = input
    /\ rebound = FALSE

\* No call of expand is made.
ExIdle ==
    /\ exIn = <<>>
    /\ exOut = Undefined
    /\ exPc = "idle"

\* No file resolver is at work.
EnvIdle ==
    /\ resolver = FALSE
    /\ files = <<>>
    /\ envFileVariables = Dict(<<>>)
    /\ fetched = <<>>
    /\ rdSvc = 0
    /\ rdPath = 0

InitKV ==
    /\ kvIn \in KVInputs
    /\ kvOut = Undefined
    /\ kvPc = "call"
    /\ NormIdle
    /\ EnvIdle
    /\ ExIdle

KVApply ==
    /\ kvPc = "call"
    /\ kvOut' = normalizeKeyValuePairs(kvIn, "=")
    /\ kvPc' = "returned"
    /\ UNCHANGED <<kvIn, normVars, envVars, callerVars, exVars>>

NextKV == KVApply

SpecKV == InitKV /\ [][NextKV]_vars

(***************************************************************************)
(* The documents normalize is called with.                                 *)
(***************************************************************************)
MaxServices == 2

\* The i-th service's name: s8, s7, ... (insertion order is not sorted order).
SvcName(i) == <<"s", Digit(9 - i)>>

VolName == <<"v">>

Img == Str(<<"i", "m", "g">>)

Ctx == Str(<<".", "/", "s">>)

GoodLabelsDict ==
    Dict(<< <<<<"i", "o", ".", "a", "-", "b">>, Num(1)>>, <<<<"Z", "9">>, Str(<<" ", "x", " ">>)>> >>)

GoodLabelsList == List(<<Str(<<" ", "a", ".", "b", " ", "=", " ", "1">>), Str(<<"c">>)>>)

BadLabelsDict ==
    Dict(<< <<<<"o", "k">>, Str(<<"1">>)>>, <<<<"m", "a", "l", "_", "f">>, Str(<<"t">>)>>,
            <<<<"a", " ", "b">>, Null>> >>)

BadLabelsList == List(<<Str(<<"o", "k", "=", "1">>), Str(<<"a", "_", "b", "=", "1">>)>>)

EmptyKeyLabelsList == List(<<Str(<<"=", "1">>)>>)

Obj(pairs) == Dict(pairs)

\* The shapes a service takes in the documents of the model.
ServicePool ==
    { Obj(<< <<F_image, Img>> >>),
      Obj(<< <<F_build, Ctx>> >>),
      Obj(<< <<F_build, Obj(<< <<F_context, Ctx>>,
                               <<F_dockerfile, Str(<<"D", "f">>)>>,
                               <<F_args, List(<<Str(<<"A", "=", "1", "=", "2">>), Str(<<"B">>)>>)>>,
                               <<F_labels, GoodLabelsDict>> >>)>> >>),
      Obj(<< <<F_image, Img>>, <<F_build, Obj(<< <<F_context, Ctx>> >>)>> >>),
      Obj(<< <<F_labels, GoodLabelsDict>> >>),
      Obj(<< <<F_image, Img>>, <<F_labels, BadLabelsDict>> >>),
      Obj(<< <<F_image, Img>>, <<F_labels, GoodLabelsList>>,
             <<F_environment, Dict(<< <<<<"A">>, Num(0)>>, <<<<"B">>, Str(<<" ", "b">>)>> >>)>> >>),
      Obj(<< <<F_build, Obj(<< <<F_context, Ctx>>, <<F_labels, BadLabelsList>> >>)>> >>),
      Obj(<< <<F_image, Str(<<>>)>>, <<F_build, Str(<<>>)>> >>),
      Obj(<< <<F_image, Str(<<>>)>>, <<F_build, Ctx>>, <<F_labels, EmptyKeyLabelsList>> >>),
      Obj(<< <<F_image, Img>>,
             <<F_build, Obj(<< <<F_context, Ctx>>, <<F_dockerfile, Str(<<>>)>>,
                               <<F_args, Obj(<<>>)>> >>)>>,
             <<F_environment, List(<<Str(<<"A", "=", "1">>), Str(<<"A", "=">>)>>)>> >>),
      Obj(<< <<F_image, Img>>,
             <<F_depends_on, List(<<Str(SvcName(1))>>)>>,
             <<F_env_file, Str(<<".", "/", "a", "/", ".", ".", "/", "e">>)>>,
             <<F_extra_hosts, Obj(<< <<<<"h">>, Str(<<"1", ".", "2">>)>> >>)>>,
             <<F_ports, List(<<Num(80), Str(<<"1", ":", "2">>)>>)>>,
             <<F_volumes, List(<<Str(<<"v", ":", "/", "d">>)>>)>> >>) }

\* The shapes used where the version field is what varies.
SmallServicePool ==
    { Obj(<< <<F_image, Img>> >>),
      Obj(<< <<F_build, Ctx>>, <<F_labels, GoodLabelsList>> >>),
      Obj(<<>>) }

\* The services maps of at most MaxServices services drawn from pool.
ServiceMaps(pool) ==
    UNION {{Obj([i \in 1..k |-> <<SvcName(i), q[i]>>]) : q \in [1..k -> pool]}
           : k \in 0..MaxServices}

NetworksPool ==
    { Obj(<< <<<<"n">>, Null>>, <<<<"m">>, Obj(<< <<F_labels, GoodLabelsList>> >>)>> >>),
      Obj(<< <<<<"n">>, Obj(<< <<F_labels, BadLabelsDict>> >>)>>, <<<<"m">>, Null>> >>) }

VolumesPool ==
    { Obj(<< <<VolName, Null>> >>),
      Obj(<< <<VolName, Obj(<< <<F_labels, GoodLabelsDict>> >>)>>, <<<<"w">>, Null>> >>),
      Obj(<< <<<<"w">>, Obj(<< <<F_labels, BadLabelsList>> >>)>>, <<VolName, Null>> >>) }

\* The values of the version field: strings, numbers (2, 2.1, 3) and null.
VersionInputs ==
    { Str(<<"1", ".", "0">>), Str(<<"2">>), Str(<<"2", ".", "0">>), Str(<<"2", ".", "1">>),
      Str(<<"2", ".", "4">>), Str(<<"3">>), Str(<<>>), Num(2), Num(3), Dec(2, 1), Null }

\* A property list with the properties whose value is undefined left out.
Props(pairs) == Obj(SelectSeq(pairs, LAMBDA pr : pr[2] # Undefined))

Document(ver, services, networks, volumes) ==
    Props(<< <<F_version, ver>>, <<F_services, services>>,
             <<F_networks, networks>>, <<F_volumes, volumes>> >>)

\* Every version value, over small services maps.
VersionedDocuments ==
    {Document(ver, services, Undefined, Undefined) :
        ver \in VersionInputs, services \in ServiceMaps(SmallServicePool)}

\* Version 1 documents: no version field, the document is the services map.
\* The last two are version 2 documents whose version field was left out.
UnversionedDocuments ==
    ServiceMaps(SmallServicePool)
    \cup {Document(Undefined, services, Undefined, Undefined) :
            services \in {Obj(<< <<SvcName(1), Obj(<< <<F_image, Img>> >>)>> >>)}}

\* Version 2.1 documents over every shape of service, with and without the
\* volume the services mount.
ServiceDocuments ==
    {Document(Str(v2_1), services, Undefined, volumes) :
        services \in ServiceMaps(ServicePool) \cup {Undefined},
        volumes \in {Undefined, Obj(<< <<VolName, Null>> >>)}}

\* Version 2.1 documents over every shape of network and volume.
EntityDocuments ==
    {Document(Str(v2_1), services, networks, volumes) :
        services \in ServiceMaps(SmallServicePool),
        networks \in NetworksPool \cup {Undefined},
        volumes \in VolumesPool \cup {Undefined}}

\* The sequences of at most n elements of S.
ListsOf(S, n) == UNION {[1..k -> S] : k \in 0..n}

TextList(q) == List([i \in 1..Len(q) |-> Str(q[i])])

\* A version 2.1 document of two services with images; the first one has the
\* field name with the given value.
FieldDocument(name, value, volumes) ==
    Document(Str(v2_1),
             Obj(<< <<SvcName(1), Obj(<< <<F_image, Img>>, <<name, value>> >>)>>,
                    <<SvcName(2), Obj(<< <<F_image, Img>> >>)>> >>),
             Undefined, volumes)

\* Service volume entries: a declared and an undeclared volume, no colon,
\* sources with a directory component, an empty source.
VolumeEntries ==
    { <<"v", ":", "/", "d">>, <<"w", ":", "/", "d">>, <<"v">>,
      <<".", "/", "v", ":", "/", "d">>, <<"/", "v", ":", "/", "d">>, <<":", "/", "d">> }

VolumeDocuments ==
    {FieldDocument(F_volumes, TextList(q), volumes) :
        q \in ListsOf(VolumeEntries, MaxItems),
        volumes \in {Undefined, Obj(<< <<VolName, Null>> >>),
                     Obj(<< <<<<"w">>, Null>>, <<VolName, Obj(<<>>)>> >>)}}

\* depends_on: lists over the two declared services and an undeclared one
\* (with repetitions), and the mapping form.
DependsDocuments ==
    {FieldDocument(F_depends_on, value, Undefined) :
        value \in {TextList(q) : q \in ListsOf({SvcName(1), SvcName(2), <<"s", "x">>},
                                               MaxItems)}
                  \cup {Obj(<< <<SvcName(2), Obj(<<>>)>> >>)}}

\* extra_hosts: mappings of host names to addresses (texts and numbers) in
\* either key order, and lists of "host:ip" strings.
ExtraHostsValues ==
    UNION {{Obj([i \in 1..Len(hosts) |-> <<hosts[i], ips[i]>>]) :
              ips \in [1..Len(hosts) -> {Str(<<"1", ".", "2">>), Num(5)}]}
           : hosts \in UniqueSeqs({<<"h">>, <<"g">>}, MaxItems)}
    \cup {TextList(q) : q \in ListsOf({<<"h", ":", "1", ".", "2">>, <<"g", ":", "5">>},
                                       MaxItems)}

ExtraHostsDocuments ==
    {FieldDocument(F_extra_hosts, value, Undefined) : value \in ExtraHostsValues}

\* env_file: every text of at most MaxStrLen characters over PathChars as a
\* single path (the empty text included), and lists over a pool of paths of
\* which several normalize to the same path.
PathChars == {".", "/", "e", "*"}

PathTexts(n) == UNION {[1..k -> PathChars] : k \in 0..n}

EnvPathPool ==
    { <<"e">>, <<".", "/", "e">>, <<"d", "/", ".", ".", "/", "e">>, <<"d", "/", "e">>,
      <<"f">>, <<".", ".", "/", "f">> }

EnvFileValues ==
    {Str(p) : p \in PathTexts(MaxStrLen)}
    \cup {TextList(q) : q \in ListsOf(EnvPathPool, MaxItems)}

EnvFileDocuments ==
    {FieldDocument(F_env_file, value, Undefined) : value \in EnvFileValues}

FieldDocuments ==
    VolumeDocuments \cup DependsDocuments \cup ExtraHostsDocuments \cup EnvFileDocuments

Documents ==
    VersionedDocuments \cup UnversionedDocuments \cup ServiceDocuments
    \cup EntityDocuments \cup FieldDocuments \cup {Null, Str(<<"x">>)}

(***************************************************************************)
(* normalize(inputCompositionObject) without a file resolver:              *)
(* normalizeObjectToComposition, step by step.                             *)
(***************************************************************************)
KVIdle ==
    /\ kvIn = Undefined
    /\ kvOut = Undefined
    /\ kvPc = "idle"

Init ==
    /\ KVIdle
    /\ ExIdle
    /\ EnvIdle
    /\ input \in Documents
    /\ c = input
    /\ version = v1_0
    /\ pc = "start"
    /\ svcIdx = 0
    /\ err = NoError
    /\ pass = 1
    /\ first = Undefined
    /\ descriptors = <<>>
    /\ caller = input
    /\ rebound = FALSE

\* A variant of heldByCaller in which c never leaves the caller's object.
heldByCallerNeverRebound(doc) == doc

\* What the caller's object holds when c holds doc: c itself while c is the
\* caller's object; once c is { version, services: <the caller's object> },
\* the services, whose service objects are the ones normalized in place.
heldByCaller(doc) == IF rebound THEN Get(doc, F_services) ELSE doc

Throw(e) ==
    /\ pc' = "failed"
    /\ err' = e

\* The text the switch compares: a version that is not a string is first
\* replaced by `${c.version}`.
coercedVersion(doc) ==
    IF Get(doc, F_version).t = "str" THEN Get(doc, F_version)
    ELSE Str(ToText(Get(doc, F_version)))

\* Stands for the switch's default case.
Unsupported == <<"u", "n", "s", "u", "p", "p", "o", "r", "t", "e", "d">>

\* A variant of switchVersion without the case '2'.
switchVersionWithoutCase2(text) ==
    IF text = <<"2", ".", "0">> THEN v2_0
    ELSE IF text = <<"2", ".", "1">> THEN v2_1
    ELSE Unsupported

\* A variant of switchVersion whose default case selects the latest schema
\* instead of throwing.
switchVersionDefaultsToLatest(text) ==
    IF text = <<"2">> \/ text = <<"2", ".", "0">> THEN v2_0
    ELSE v2_1

\* The schema version the switch selects.
switchVersion(text) ==
    IF text = <<"2">> \/ text = <<"2", ".", "0">> THEN v2_0
    ELSE IF text = <<"2", ".", "1">> THEN v2_1
    ELSE Unsupported

\* if (!_.isObject(...)) throw
RejectNonObject ==
    /\ pc = "start"
    /\ ~isObject(c)
    /\ Throw(ValidationError("Invalid composition format", <<>>))
    /\ UNCHANGED <<kvVars, exVars, envVars, callerVars, input, c, version, svcIdx, pass, first, descriptors>>

\* if (_.isUndefined(c.version)) version = SchemaVersion.v1_0
ResolveOmittedVersion ==
    /\ pc = "start"
    /\ isObject(c)
    /\ Get(c, F_version) = Undefined
    /\ version' = v1_0
    /\ pc' = "preflight"
    /\ UNCHANGED <<kvVars, exVars, envVars, callerVars, input, c, svcIdx, err, pass, first, descriptors>>

\* else { coerce c.version to a string; switch (c.version) ... }
ResolveVersion ==
    /\ pc = "start"
    /\ isObject(c)
    /\ Get(c, F_version) # Undefined
    /\ c' = Set(c, F_version, coercedVersion(c))
    /\ IF switchVersion(coercedVersion(c).s) = Unsupported
       THEN /\ Throw(ValidationError("Unsupported composition version", <<>>))
            /\ UNCHANGED version
       ELSE /\ version' = switchVersion(coercedVersion(c).s)
            /\ pc' = "preflight"
            /\ UNCHANGED err
    /\ UNCHANGED <<kvVars, exVars, envVars, rebound, input, svcIdx, pass, first, descriptors>>
    /\ caller' = heldByCaller(c')

Preflight ==
    /\ pc = "preflight"
    /\ c' = preflight(version, c)
    /\ pc' = "validate"
    /\ UNCHANGED <<kvVars, exVars, envVars, rebound, input, version, svcIdx, err, pass, first, descriptors>>
    /\ caller' = heldByCaller(c')

\* The label of the switch (version) the call jumps to.
caseLabel(v) ==
    IF v = v1_0 THEN "case_v1_0" ELSE IF v = v2_0 THEN "case_v2_0" ELSE "case_v2_1"

\* validate(version, c) returns: the schema validator accepted the document.
ValidateAccepts ==
    /\ pc = "validate"
    /\ pc' = caseLabel(version)
    /\ UNCHANGED <<kvVars, exVars, envVars, callerVars, input, c, version, svcIdx, err, pass, first, descriptors>>

\* validate(version, c) throws a SchemaError, rethrown as a ValidationError.
ValidateRejects ==
    /\ pc = "validate"
    /\ Throw(ValidationError("SchemaError", <<>>))
    /\ UNCHANGED <<kvVars, exVars, envVars, callerVars, input, c, version, svcIdx, pass, first, descriptors>>

\* The migration loop of the earlier normalize: while (true) switch (version),
\* every case but the last sets version and breaks: the document with which
\* the v2_1 case is entered.
RECURSIVE migrateLoop(_, _)
migrateLoop(v, doc) ==
    IF v = v1_0
    THEN migrateLoop(v2_0, Obj(<< <<F_version, Str(v2_0)>>, <<F_services, doc>> >>))
    ELSE IF v = v2_0
    THEN migrateLoop(v2_1, Set(doc, F_version, Str(v2_1)))
    ELSE doc

\* A variant of CaseV1_0 that leaves the switch for the v2_1 case, as after a
\* break that skips the v2_0 step.
CaseV1_0SkipsV2_0 ==
    /\ pc = "case_v1_0"
    /\ c' = Obj(<< <<F_version, Str(v2_0)>>, <<F_services, c>> >>)
    /\ pc' = "case_v2_1"
    /\ UNCHANGED <<kvVars, exVars, envVars, caller, input, version, svcIdx, err, pass, first, descriptors>>
    /\ rebound' = TRUE

\* case SchemaVersion.v1_0: c = { version: SchemaVersion.v2_0, services: c }
CaseV1_0 ==
    /\ pc = "case_v1_0"
    /\ c' = Obj(<< <<F_version, Str(v2_0)>>, <<F_services, c>> >>)
    /\ pc' = "case_v2_0"
    /\ UNCHANGED <<kvVars, exVars, envVars, caller, input, version, svcIdx, err, pass, first, descriptors>>
    /\ rebound' = TRUE

\* case SchemaVersion.v2_0: c.version = SchemaVersion.v2_1
CaseV2_0 ==
    /\ pc = "case_v2_0"
    /\ c' = Set(c, F_version, Str(v2_1))
    /\ pc' = "case_v2_1"
    /\ UNCHANGED <<kvVars, exVars, envVars, rebound, input, version, svcIdx, err, pass, first, descriptors>>
    /\ caller' = heldByCaller(c')

\* const services = c.services || {}
servicesOf(doc) ==
    IF Truthy(Get(doc, F_services)) THEN Get(doc, F_services) ELSE Obj(<<>>)

\* case SchemaVersion.v2_1: if (c.volumes) c.volumes = _.mapValues(...)
NormalizeVolumes ==
    /\ pc = "case_v2_1"
    /\ IF Truthy(Get(c, F_volumes))
       THEN LET r == mapValues(Get(c, F_volumes), normalizeVolume)
            IN  /\ c' = Set(c, F_volumes, r.val)
                /\ IF r.err # NoError
                   THEN Throw(r.err) /\ UNCHANGED svcIdx
                   ELSE pc' = "services" /\ svcIdx' = 1 /\ UNCHANGED err
       ELSE /\ pc' = "services"
            /\ svcIdx' = 1
            /\ UNCHANGED <<c, err>>
    /\ UNCHANGED <<kvVars, exVars, envVars, rebound, input, version, pass, first, descriptors>>
    /\ caller' = heldByCaller(c')

\* One call of the callback of _.mapValues(services, ...): the service is
\* normalized in place.
NormalizeService ==
    /\ pc = "services"
    /\ svcIdx <= Len(servicesOf(c).pairs)
    /\ LET services == servicesOf(c)
           r == normalizeService(services.pairs[svcIdx][2], keysOf(services),
                                 keysOf(Get(c, F_volumes)))
       IN  /\ c' = Set(c, F_services,
                       Obj([services.pairs EXCEPT
                              ![svcIdx] = <<services.pairs[svcIdx][1], r.val>>]))
           /\ IF r.err # NoError
              THEN Throw(r.err) /\ UNCHANGED svcIdx
              ELSE svcIdx' = svcIdx + 1 /\ UNCHANGED <<pc, err>>
    /\ UNCHANGED <<kvVars, exVars, envVars, rebound, input, version, pass, first, descriptors>>
    /\ caller' = heldByCaller(c')

\* c.services = (the mapped services); if (c.networks) c.networks =
\* _.mapValues(...); return c
NormalizeNetworks ==
    /\ pc = "services"
    /\ svcIdx > Len(servicesOf(c).pairs)
    /\ LET c1 == Set(c, F_services, servicesOf(c))
           r == mapValues(Get(c1, F_networks), normalizeNetwork)
       IN  IF Truthy(Get(c1, F_networks))
           THEN /\ c' = Set(c1, F_networks, r.val)
                /\ IF r.err # NoError
                   THEN Throw(r.err)
                   ELSE pc' = "done" /\ UNCHANGED err
           ELSE /\ c' = c1
                /\ pc' = "done"
                /\ UNCHANGED err
    /\ UNCHANGED <<kvVars, exVars, envVars, rebound, input, version, svcIdx, pass, first, descriptors>>
    /\ caller' = heldByCaller(c')

\* The caller passes the returned composition to parse.
Parse ==
    /\ pc = "done"
    /\ LET r == parse(c)
       IN  /\ descriptors' = r.val
           /\ err' = r.err
           /\ pc' = IF r.err = NoError THEN "parsed" ELSE "parseFailed"
    /\ UNCHANGED <<kvVars, exVars, envVars, callerVars, input, c, version, svcIdx, pass, first>>

\* The caller passes the returned composition to normalize again.
NormalizeAgain ==
    /\ pc = "done"
    /\ pass = 1
    /\ pass' = 2
    /\ first' = c
    /\ input' = c
    /\ pc' = "start"
    /\ version' = v1_0
    /\ svcIdx' = 0
    /\ UNCHANGED <<kvVars, exVars, envVars, c, err, descriptors>>
    /\ caller' = c
    /\ rebound' = FALSE

Next ==
    \/ RejectNonObject
    \/ ResolveOmittedVersion
    \/ ResolveVersion
    \/ Preflight
    \/ ValidateAccepts
    \/ ValidateRejects
    \/ CaseV1_0
    \/ CaseV2_0
    \/ NormalizeVolumes
    \/ NormalizeService
    \/ NormalizeNetworks
    \/ Parse
    \/ NormalizeAgain

Spec == Init /\ [][Next]_vars

(***************************************************************************)
(* normalize(inputCompositionObject, fileResolverCb): the same             *)
(* normalizeObjectToComposition, then expandContext. The calls of the      *)
(* model: a document, whether a resolver is passed, and what the           *)
(* resolver's streams deliver for each path.                               *)
(***************************************************************************)
PathE == <<"e">>

PathF == <<"f">>

PathValueOf == <<"v", "a", "l", "u", "e", "O", "f">>

EnvPaths == {PathE, PathF, PathValueOf}

\* A stream that delivers these lines and closes.
Readable(lines) == [ok |-> TRUE, lines |-> lines]

\* A resolver call that rejects, or a stream that emits 'error'.
Unreadable == [ok |-> FALSE, lines |-> <<>>]

\* The lines of env files: a key twice, a value with '=', an empty line, a
\* line of blanks around key and value, a key without value, a value that
\* is a variable reference.
LinePool ==
    { <<"A", "=", "1">>, <<"A", "=", "2">>, <<"B", "=", "x", "=", "y">>, <<>>,
      <<" ", "C", " ", "=", " ", "c", " ">>, <<"D">>, <<"B", "=", "$", "V">> }

FixedFiles ==
    [path \in EnvPaths |->
        IF path = PathE
        THEN Readable(<< <<"A", "=", "e">>, <<"B", "=", "e">>,
                         PathValueOf \o <<"=", "9">> >>)
        ELSE IF path = PathF
        THEN Readable(<< <<"A", "=", "f">>, <<"D", "=", "f">> >>)
        ELSE Readable(<< <<"V", "=", "v">> >>)]

\* One service reads the file e, whose lines vary.
LineCalls ==
    {[doc |-> FieldDocument(F_env_file, Str(PathE), Undefined),
      files |-> [FixedFiles EXCEPT ![PathE] = Readable(lines)],
      resolver |-> TRUE] : lines \in ListsOf(LinePool, MaxItems)}

EnvService(environment, envFile) ==
    Props(<< <<F_image, Img>>, <<F_environment, environment>>, <<F_env_file, envFile>> >>)

\* Two services with inline environments and env_file lists that share
\* paths, spell a path in two ways, or are empty.
MergeDocuments ==
    {Document(Str(v2_1),
              Obj(<< <<SvcName(1), EnvService(environment, envFile1)>>,
                     <<SvcName(2), EnvService(Undefined, envFile2)>> >>),
              Undefined, Undefined) :
        environment \in {Undefined,
                         Obj(<< <<<<"A">>, Str(<<"i", "n">>)>> >>),
                         List(<<Str(<<"B", "=", "i", "n">>)>>)},
        envFile1 \in {TextList(<<PathE, PathF>>), TextList(<<PathF, PathE>>),
                      Str(<<".", "/", "e">>), TextList(<<PathE, <<".", "/", "e">> >>),
                      Str(<<>>), Undefined},
        envFile2 \in {Undefined, TextList(<<PathE>>), TextList(<<PathF>>),
                      TextList(<<PathValueOf>>)}}

MergeCalls ==
    {[doc |-> doc, files |-> fs, resolver |-> TRUE] :
        doc \in MergeDocuments,
        fs \in {FixedFiles, [FixedFiles EXCEPT ![PathF] = Unreadable]}}

\* The same documents without a resolver, and documents that fail before
\* any file is read.
PlainCalls ==
    {[doc |-> doc, files |-> FixedFiles, resolver |-> FALSE] : doc \in MergeDocuments}
    \cup {[doc |-> doc, files |-> FixedFiles, resolver |-> TRUE] :
            doc \in {Null,
                     Obj(<< <<SvcName(1), EnvService(Undefined, Str(PathE))>> >>),
                     FieldDocument(F_env_file, Str(<<".", ".", "/", "e">>), Undefined),
                     Document(Str(v2_1),
                              Obj(<< <<SvcName(1),
                                       EnvService(Obj(<< <<<<"A">>,
                                                           Str(<<"$", "{", "V", "}">>)>> >>),
                                                  Str(PathE))>> >>),
                              Undefined, Undefined),
                     Document(Str(<<"3">>), Obj(<<>>), Undefined, Undefined)}}

EnvCalls == LineCalls \cup MergeCalls \cup PlainCalls

InitEnv ==
    /\ KVIdle
    /\ ExIdle
    /\ \E call \in EnvCalls :
          /\ input = call.doc
          /\ files = call.files
          /\ resolver = call.resolver
    /\ c = input
    /\ version = v1_0
    /\ pc = "start"
    /\ svcIdx = 0
    /\ err = NoError
    /\ pass = 1
    /\ first = Undefined
    /\ descriptors = <<>>
    /\ caller = input
    /\ rebound = FALSE
    /\ envFileVariables = Dict(<<>>)
    /\ fetched = <<>>
    /\ rdSvc = 0
    /\ rdPath = 0

\* The services readEnvFilesFromComposition's loop visits.
readServices == Get(c, F_services).pairs

\* The path the inner loop is at.
readPath == envFilePathsOf(readServices[rdSvc][2])[rdPath].s

\* normalizeObjectToComposition returned: expandContext starts with an
\* empty envFileVariables.
ExpandContext ==
    /\ pc = "done"
    /\ resolver
    /\ pc' = "read"
    /\ envFileVariables' = Dict(<<>>)
    /\ rdSvc' = 1
    /\ rdPath' = 1
    /\ UNCHANGED <<kvVars, exVars, callerVars, input, c, version, svcIdx, err, pass, first, descriptors,
                   resolver, files, fetched>>

\* The inner loop is through with a service: on to the next one.
ReadNextService ==
    /\ pc = "read"
    /\ rdSvc <= Len(readServices)
    /\ rdPath > Len(envFilePathsOf(readServices[rdSvc][2]))
    /\ rdSvc' = rdSvc + 1
    /\ rdPath' = 1
    /\ UNCHANGED <<kvVars, exVars, callerVars, normVars, resolver, files, envFileVariables, fetched>>

\* if (!(envFilePath in envFileVariables)) is false: nothing is read.
SkipKnownPath ==
    /\ pc = "read"
    /\ rdSvc <= Len(readServices)
    /\ rdPath <= Len(envFilePathsOf(readServices[rdSvc][2]))
    /\ In(readPath, envFileVariables)
    /\ rdPath' = rdPath + 1
    /\ UNCHANGED <<kvVars, exVars, callerVars, normVars, resolver, files, envFileVariables, fetched, rdSvc>>

\* A variant of CallResolver that passes the path with a "./" before it, as
\* a document may spell it.
CallResolverUnnormalizedPath ==
    /\ pc = "read"
    /\ rdSvc <= Len(readServices)
    /\ rdPath <= Len(envFilePathsOf(readServices[rdSvc][2]))
    /\ ~In(readPath, envFileVariables)
    /\ fetched' = Append(fetched, <<".", "/">> \o readPath)
    /\ pc' = "awaitFile"
    /\ UNCHANGED <<kvVars, exVars, callerVars, input, c, version, svcIdx, err, pass, first, descriptors,
                   resolver, files, envFileVariables, rdSvc, rdPath>>

\* readAndNormalizeExpandEnvFile: await fileResolverCb(envFile)
CallResolver ==
    /\ pc = "read"
    /\ rdSvc <= Len(readServices)
    /\ rdPath <= Len(envFilePathsOf(readServices[rdSvc][2]))
    /\ ~In(readPath, envFileVariables)
    /\ fetched' = Append(fetched, readPath)
    /\ pc' = "awaitFile"
    /\ UNCHANGED <<kvVars, exVars, callerVars, input, c, version, svcIdx, err, pass, first, descriptors,
                   resolver, files, envFileVariables, rdSvc, rdPath>>

\* The line reader closed without a stream error: the parsed variables are
\* stored under the path.
FileRead ==
    /\ pc = "awaitFile"
    /\ files[readPath].ok
    /\ envFileVariables' =
          Set(envFileVariables, readPath,
              readAndNormalizeExpandEnvFile(files[readPath].lines))
    /\ rdPath' = rdPath + 1
    /\ pc' = "read"
    /\ UNCHANGED <<kvVars, exVars, callerVars, input, c, version, svcIdx, err, pass, first, descriptors,
                   resolver, files, fetched, rdSvc>>

\* A variant of FileFails that rejects after merging what was read so far.
FileFailsPartiallyMerged ==
    /\ pc = "awaitFile"
    /\ ~files[readPath].ok
    /\ pc' = "rejected"
    /\ err' = PlainError("read error")
    /\ c' = assignExpandedEnvFilesToComposition(c, envFileVariables)
    /\ UNCHANGED <<kvVars, exVars, rebound, input, version, svcIdx, pass, first, descriptors, envVars>>
    /\ caller' = heldByCaller(c')

\* The resolver rejected or the stream emitted 'error': the promise of
\* normalize rejects.
FileFails ==
    /\ pc = "awaitFile"
    /\ ~files[readPath].ok
    /\ pc' = "rejected"
    /\ err' = PlainError("read error")
    /\ UNCHANGED <<kvVars, exVars, callerVars, input, c, version, svcIdx, pass, first, descriptors, envVars>>

\* The outer loop is through: assignExpandedEnvFilesToComposition, and the
\* promise resolves with the composition.
AssignExpandedEnvFiles ==
    /\ pc = "read"
    /\ rdSvc > Len(readServices)
    /\ c' = assignExpandedEnvFilesToComposition(c, envFileVariables)
    /\ pc' = "expanded"
    /\ UNCHANGED <<kvVars, exVars, rebound, input, version, svcIdx, err, pass, first, descriptors, envVars>>
    /\ caller' = heldByCaller(c')

NextEnv ==
    \/ RejectNonObject
    \/ ResolveOmittedVersion
    \/ ResolveVersion
    \/ Preflight
    \/ ValidateAccepts
    \/ ValidateRejects
    \/ CaseV1_0
    \/ CaseV2_0
    \/ NormalizeVolumes
    \/ NormalizeService
    \/ NormalizeNetworks
    \/ ExpandContext
    \/ ReadNextService
    \/ SkipKnownPath
    \/ CallResolver
    \/ FileRead
    \/ FileFails
    \/ AssignExpandedEnvFiles

SpecEnv == InitEnv /\ [][NextEnv]_vars

(***************************************************************************)
(* expand as a function of its own: a template and the lookup of the       *)
(* 'interpolation' tests (VAR has a value, EMPTY_VAR is empty, any other   *)
(* name is undefined).                                                     *)
(***************************************************************************)
MaxDollars == 4

NameV == <<"V">>

NameE == <<"E">>

NameU == <<"U">>

ValueOfV == <<"1">>

TestLookup == [name \in {NameV, NameE} |-> IF name = NameV THEN ValueOfV ELSE <<>>]

Operators == {<<"-">>, <<":", "-">>, <<"?">>, <<":", "?">>}

\* Default and message texts: plain text, and text that reads as a reference.
Payloads == {<<"#">>, <<"$", "V">>}

Braced(inner) == <<"{">> \o inner \o <<"}">>

References ==
    {NameV, NameE, NameU}
    \cup {Braced(name) : name \in {NameV, NameE, NameU}}
    \cup {Braced(name \o op \o payload) :
            name \in {NameV, NameE, NameU}, op \in Operators, payload \in Payloads}

\* Text before and after a reference: none, plain text, text that would be
\* a default outside braces, another reference.
Prefixes == {<<>>, <<"#">>, <<"$", "$", "E", "#">>}

Suffixes == {<<>>, <<"-", "#">>, <<"#", "$", "V">>}

Templates ==
    {prefix \o Dollars(n) \o ref \o suffix :
        prefix \in Prefixes, n \in 1..MaxDollars, ref \in References, suffix \in Suffixes}
    \cup {<<"$", "-", "#">>, <<"$", "$", "#">>, <<"#", "$">>, <<"#">>}

InitExpand ==
    /\ KVIdle
    /\ NormIdle
    /\ EnvIdle
    /\ exIn \in Templates
    /\ exOut = Undefined
    /\ exPc = "call"

ExpandApply ==
    /\ exPc = "call"
    /\ exOut' = expand(exIn, TestLookup)
    /\ exPc' = "returned"
    /\ UNCHANGED <<kvVars, normVars, envVars, callerVars, exIn>>

NextExpand == ExpandApply

SpecExpand == InitExpand /\ [][NextExpand]_vars

(***************************************************************************)
(* Claims about the key/value normalizer (checked under SpecKV).           *)
(***************************************************************************)
\* What a "K=V" entry is expected to mean: the key is the trimmed text before
\* the first '=', the value the trimmed text after it ('' when there is none).
EntryKey(e) ==
    LET p == IndexOf(e, "=")
    IN  trim(IF p = 0 THEN e ELSE SubSeq(e, 1, p - 1))

EntryValue(e) ==
    LET p == IndexOf(e, "=")
    IN  IF p = 0 THEN <<>> ELSE trim(SubSeq(e, p + 1, Len(e)))

CountOf(s, ch) == Cardinality({i \in 1..Len(s) : s[i] = ch})

KVReturnedList == kvPc = "returned" /\ kvIn.t = "list"

KVReturnedDict == kvPc = "returned" /\ kvIn.t = "dict"

\* C7: in list form every entry "K=V" is split at the first '=' only: the
\* normalized mapping has the trimmed text before the first '=' as a key, and
\* (unless a later entry has the same key) its value is the trimmed remainder,
\* later '=' included; an entry with no '=' or nothing after it has value ''.
C7_ListEntrySplitAtFirstEquals ==
    KVReturnedList =>
        \A i \in 1..Len(kvIn.items) :
            LET e == kvIn.items[i].s
            IN  /\ HasKey(kvOut.pairs, EntryKey(e))
                /\ (\A j \in (i + 1)..Len(kvIn.items) : EntryKey(kvIn.items[j].s) # EntryKey(e))
                      => Lookup(kvOut.pairs, EntryKey(e)) = Str(EntryValue(e))

\* C7 witness: an entry with two '=' was normalized and its value kept an '='.
C7_Witness ==
    /\ KVReturnedList
    /\ Len(kvIn.items) = 1
    /\ CountOf(kvIn.items[1].s, "=") = 2
    /\ Len(kvOut.pairs) = 1
    /\ CountOf(kvOut.pairs[1][2].s, "=") = 1

\* C8 as stated: in mapping form every key is kept and its value is the
\* trimmed text of the source value (0 becomes "0", false becomes "false");
\* only null or a missing value gives ''.
C8_DictValuesStringified ==
    KVReturnedDict =>
        /\ Len(kvOut.pairs) = Len(kvIn.pairs)
        /\ \A i \in 1..Len(kvIn.pairs) :
              /\ kvOut.pairs[i][1] = kvIn.pairs[i][1]
              /\ kvOut.pairs[i][2] =
                    IF kvIn.pairs[i][2].t \in {"null", "undef"}
                    THEN Str(<<>>)
                    ELSE Str(trim(ToText(kvIn.pairs[i][2])))

\* The keys of the source, as the normalizer reads them.
SourceKeys ==
    IF kvIn.t = "list" THEN {EntryKey(kvIn.items[i].s) : i \in 1..Len(kvIn.items)}
    ELSE IF kvIn.t = "dict" THEN KeySet(kvIn.pairs)
    ELSE {}

SourceCount ==
    IF kvIn.t = "list" THEN Len(kvIn.items)
    ELSE IF kvIn.t = "dict" THEN Len(kvIn.pairs)
    ELSE 0

Returned == pc \in {"done", "parsed", "parseFailed"}

Failed == pc = "failed"

\* The version field of the document normalize was called with.
InputVersion == Get(input, F_version)

UnsupportedVersionError == ValidationError("Unsupported composition version", <<>>)

\* The services of the document normalize was called with: the whole document
\* when it has no version field (version 1), its services property otherwise.
InputServices ==
    IF ~isObject(input) THEN <<>>
    ELSE IF InputVersion = Undefined THEN input.pairs
    ELSE IF Truthy(Get(input, F_services)) THEN Get(input, F_services).pairs
    ELSE <<>>

\* The services of the composition being returned.
Services == servicesOf(c).pairs

\* C1 as stated: a document whose version is omitted, "1.0", "2", "2.0", the
\* number 2 or "2.1" is never rejected for its version, and the composition
\* returned for it has version "2.1".
C1_ListedVersionsAccepted ==
    (isObject(input) /\ InputVersion \in {Undefined, Str(<<"1", ".", "0">>), Str(<<"2">>),
                                          Str(<<"2", ".", "0">>), Num(2),
                                          Str(<<"2", ".", "1">>)})
        => /\ ~(Failed /\ err = UnsupportedVersionError)
           /\ Returned => Get(c, F_version) = Str(<<"2", ".", "1">>)

\* C1 amended: a document whose version is omitted, "2", "2.0", the number 2
\* or "2.1" is never rejected for its version, and every composition normalize
\* returns has version "2.1"; the string "1.0" is rejected as unsupported
\* (version 1 is selected by leaving the field out).
C1_VersionsNormalizeTo21 ==
    /\ (isObject(input) /\ InputVersion \in {Undefined, Str(<<"2">>), Str(<<"2", ".", "0">>),
                                             Num(2), Str(<<"2", ".", "1">>)})
          => ~(Failed /\ err = UnsupportedVersionError)
    /\ Returned => Get(c, F_version) = Str(<<"2", ".", "1">>)
    /\ InputVersion = Str(<<"1", ".", "0">>)
          => /\ ~Returned
             /\ Failed => err = UnsupportedVersionError

\* C1 witness: a document whose version is the number 2 was returned with
\* version "2.1".
C1_Witness ==
    /\ pc = "done"
    /\ pass = 1
    /\ InputVersion = Num(2)
    /\ Len(InputServices) = 2
    /\ Get(c, F_version) = Str(<<"2", ".", "1">>)

\* C2: normalize is idempotent on its own output: when a returned composition
\* is passed to normalize again, no check of normalize fails (only the schema
\* validator, which is outside this model, can reject it) and the composition
\* returned is equal to the one passed in, in every field.
C2_NormalizeIdempotent ==
    pass = 2 =>
        /\ Failed => err = ValidationError("SchemaError", <<>>)
        /\ Returned => c = first
        /\ Returned => /\ Get(c, F_version) = Get(first, F_version)
                       /\ Get(c, F_services) = Get(first, F_services)
                       /\ Get(c, F_networks) = Get(first, F_networks)
                       /\ Get(c, F_volumes) = Get(first, F_volumes)

\* C2 witness: a composition with two services (a build, an env_file) and a
\* volume went through normalize a second time and came back equal.
C2_Witness ==
    /\ pass = 2
    /\ pc = "done"
    /\ c = first
    /\ Len(Services) = 2
    /\ Truthy(Get(Services[2][2], F_env_file))
    /\ Truthy(Get(Services[1][2], F_build))
    /\ Truthy(Get(c, F_volumes))

\* C3: parse(normalize(x)) has exactly one descriptor per service of x, and
\* the i-th descriptor's serviceName is the i-th service key of x.
C3_OneDescriptorPerService ==
    pc = "parsed" =>
        /\ Len(descriptors) = Len(InputServices)
        /\ \A i \in 1..Len(InputServices) :
              descriptors[i].serviceName = InputServices[i][1]

\* C3 witness: two services were parsed into two descriptors.
C3_Witness ==
    /\ pc = "parsed"
    /\ pass = 1
    /\ Len(InputServices) = 2
    /\ Len(descriptors) = 2
    /\ descriptors[1].serviceName # descriptors[2].serviceName

\* A property is present when it holds a value JavaScript treats as true
\* (an empty string counts as absent).
Present(v) == Truthy(v)

BuildConfigKeys == {F_context, F_dockerfile, F_args, F_labels, F_tag}

\* What C4 expects for one service.
ExpectedImage(service, image) ==
    LET build == Get(service, F_build)
    IN  IF Present(Get(service, F_image)) /\ ~Present(build)
        THEN image = Get(service, F_image)
        ELSE /\ image.t = "dict"
             /\ KeySet(image.pairs) \subseteq BuildConfigKeys
             /\ Get(image, F_context) = Get(build, F_context)
             /\ \A name \in {F_dockerfile, F_args, F_labels} :
                   Get(image, name) =
                      IF Present(Get(build, name)) THEN Get(build, name) ELSE Undefined
             /\ Get(image, F_tag) =
                   IF Present(Get(service, F_image)) THEN Get(service, F_image)
                   ELSE Undefined

\* C4: for each service parse gives the image string when image is present
\* and build absent; otherwise a build config with the build's context, its
\* dockerfile, args and labels exactly when they are present, and tag exactly
\* when the service also has an image, then equal to it.
C4_DescriptorImage ==
    pc = "parsed" =>
        \A i \in 1..Len(descriptors) : ExpectedImage(Services[i][2], descriptors[i].image)

\* C4 witness: parse returned a pull reference for one service and, for
\* another, a build config with dockerfile, args, labels and no tag, and a
\* build config with a tag.
C4_Witness ==
    /\ pc = "parsed"
    /\ Len(descriptors) = 2
    /\ descriptors[1].image.t = "dict"
    /\ Get(descriptors[1].image, F_tag) = Img
    /\ descriptors[2].image.t = "dict"
    /\ Get(descriptors[2].image, F_tag) = Undefined
    /\ Truthy(Get(descriptors[2].image, F_dockerfile))
    /\ Truthy(Get(descriptors[2].image, F_labels))

LacksImageAndBuild(service) ==
    ~Present(Get(service, F_image)) /\ ~Present(Get(service, F_build))

MustSpecifyError ==
    ValidationError("You must specify either an image or a build", <<>>)

\* C5: a document with a service that has neither image nor build is never
\* returned, and the check of such a service fails with "You must specify
\* either an image or a build"; hence every service of a returned composition
\* has an image or a build, and parse of a returned composition never raises
\* InternalInconsistencyError.
C5_ImageOrBuild ==
    /\ (\E i \in 1..Len(InputServices) : LacksImageAndBuild(InputServices[i][2]))
          => ~Returned
    /\ (Failed /\ svcIdx \in 1..Len(Services) /\ LacksImageAndBuild(Services[svcIdx][2]))
          => err = MustSpecifyError
    /\ Returned => \A i \in 1..Len(Services) : ~LacksImageAndBuild(Services[i][2])
    /\ pc # "parseFailed"
    /\ err # InternalInconsistencyError

\* C5 witness: the first service was accepted and the second, with neither
\* image nor build, made normalize fail with the message.
C5_Witness ==
    /\ Failed
    /\ svcIdx = 2
    /\ LacksImageAndBuild(Services[2][2])
    /\ err = MustSpecifyError

\* The text of a version field as the switch sees it.
VersionText(v) == IF v.t = "str" THEN v.s ELSE ToText(v)

AcceptedVersionTexts == {<<"2">>, <<"2", ".", "0">>, <<"2", ".", "1">>}

UnsupportedInput ==
    /\ isObject(input)
    /\ InputVersion # Undefined
    /\ VersionText(InputVersion) \notin AcceptedVersionTexts

\* C6: a document whose version, as text, is not an accepted version string
\* fails with "Unsupported composition version" before the schema validator
\* is called and before any service, network or volume is normalized.
C6_UnsupportedVersionFailsFirst ==
    UnsupportedInput =>
        /\ pc \in {"start", "failed"}
        /\ Failed => /\ err = UnsupportedVersionError
                     /\ Get(c, F_services) = Get(input, F_services)
                     /\ Get(c, F_networks) = Get(input, F_networks)
                     /\ Get(c, F_volumes) = Get(input, F_volumes)

\* C6 witness: a document with version null (coerced to "null") failed.
C6_Witness ==
    /\ Failed
    /\ InputVersion = Null
    /\ Len(InputServices) = 2
    /\ err = UnsupportedVersionError

\* ^[A-Za-z0-9.-]+$
LabelPatternChars ==
    {"a", "b", "c", "d", "e", "f", "g", "h", "i", "j", "k", "l", "m",
     "n", "o", "p", "q", "r", "s", "t", "u", "v", "w", "x", "y", "z",
     "A", "B", "C", "D", "E", "F", "G", "H", "I", "J", "K", "L", "M",
     "N", "O", "P", "Q", "R", "S", "T", "U", "V", "W", "X", "Y", "Z",
     "0", "1", "2", "3", "4", "5", "6", "7", "8", "9", ".", "-"}

MatchesLabelPattern(name) ==
    name # <<>> /\ \A i \in 1..Len(name) : name[i] \in LabelPatternChars

\* The label keys of a labels property in either form (list keys trimmed).
LabelKeys(labels) ==
    IF labels.t = "list" THEN {EntryKey(labels.items[i].s) : i \in 1..Len(labels.items)}
    ELSE IF labels.t = "dict" THEN KeySet(labels.pairs)
    ELSE {}

\* The label keys of the entities of a map (services, networks, volumes).
EntityLabelKeys(pairs) ==
    UNION {LabelKeys(Get(pairs[i][2], F_labels)) : i \in 1..Len(pairs)}

BuildLabelKeys(pairs) ==
    UNION {LabelKeys(Get(Get(pairs[i][2], F_build), F_labels)) : i \in 1..Len(pairs)}

PairsOf(v) == IF v.t = "dict" THEN v.pairs ELSE <<>>

\* Every label key of a document with the given services.
AllLabelKeys(doc, services) ==
    EntityLabelKeys(services) \cup BuildLabelKeys(services)
    \cup EntityLabelKeys(PairsOf(Get(doc, F_networks)))
    \cup EntityLabelKeys(PairsOf(Get(doc, F_volumes)))

InputLabelKeys ==
    IF InputVersion = Undefined
    THEN EntityLabelKeys(InputServices) \cup BuildLabelKeys(InputServices)
    ELSE AllLabelKeys(input, InputServices)

\* C10: a document with a label key (of a service, a service build, a network
\* or a volume) that does not match ^[A-Za-z0-9.-]+$ is never returned; a
\* failure of the label check names a key of the document that does not
\* match; and every label key of a returned composition matches.
C10_LabelKeysValidated ==
    /\ (isObject(input) /\ \E k \in InputLabelKeys : ~MatchesLabelPattern(k)) => ~Returned
    /\ (Failed /\ err.msg = "Invalid label name")
          => /\ err.kind = "ValidationError"
             /\ ~MatchesLabelPattern(err.arg)
             /\ err.arg \in InputLabelKeys
    /\ Returned => \A k \in AllLabelKeys(c, Services) : MatchesLabelPattern(k)

\* C10 witness: normalize failed naming the key "mal_f" of a service's labels.
C10_Witness ==
    /\ Failed
    /\ err = ValidationError("Invalid label name", <<"m", "a", "l", "_", "f">>)
    /\ svcIdx = 2


(***************************************************************************)
(* Claims about the fields of a service (checked under Spec).              *)
(***************************************************************************)
\* The names of the volumes the document declares.
DeclaredVolumes ==
    IF ~isObject(input) \/ InputVersion = Undefined THEN <<>>
    ELSE keysOf(Get(input, F_volumes))

InSeq(x, q) == \E i \in 1..Len(q) : q[i] = x

\* The text of a volume entry before its first ':'.
VolumeSource(entry) ==
    SubSeq(entry, 1, Min({i \in 1..Len(entry) : entry[i] = ":"}) - 1)

InvalidVolumeError(entry) == ValidationError("Invalid volume", entry)

BindMountError == ValidationError("Bind mounts are not allowed", <<>>)

MissingVolumeError(source) == ValidationError("Missing volume definition for", source)

\* The classification of one entry, in the order of the claim.
VolumeVerdict(entry) ==
    IF ~InSeq(":", entry) THEN InvalidVolumeError(entry)
    ELSE IF parseDir(VolumeSource(entry)) # <<>> THEN BindMountError
    ELSE IF ~InSeq(VolumeSource(entry), DeclaredVolumes)
    THEN MissingVolumeError(VolumeSource(entry))
    ELSE NoError

\* The entries of a service's volumes list.
VolumeEntriesOf(service) ==
    IF Get(service, F_volumes).t = "list"
    THEN [i \in 1..Len(Get(service, F_volumes).items) |-> Get(service, F_volumes).items[i].s]
    ELSE <<>>

RejectedVolumes(service) ==
    {i \in 1..Len(VolumeEntriesOf(service)) : VolumeVerdict(VolumeEntriesOf(service)[i]) # NoError}

VolumeErrorMessages ==
    {"Invalid volume", "Bind mounts are not allowed", "Missing volume definition for"}

\* C11: a document with a service volume entry that is not accepted is never
\* returned; when normalize fails on a service's volumes, the error is the
\* one the classification (no ':', then directory component, then undeclared
\* volume) gives for the first entry that is not accepted; every service
\* volume source of a returned composition is a declared volume.
C11_ServiceVolumesClassified ==
    /\ (\E i \in 1..Len(InputServices) : RejectedVolumes(InputServices[i][2]) # {})
          => ~Returned
    /\ (Failed /\ svcIdx \in 1..Len(Services) /\ err.msg \in VolumeErrorMessages)
          => /\ RejectedVolumes(Services[svcIdx][2]) # {}
             /\ err = VolumeVerdict(VolumeEntriesOf(Services[svcIdx][2])
                                      [Min(RejectedVolumes(Services[svcIdx][2]))])
    /\ (Failed /\ svcIdx \in 1..Len(Services)
           /\ RejectedVolumes(Services[svcIdx][2]) # {})
          => err.kind = "ValidationError"
    /\ Returned =>
          \A i \in 1..Len(Services) :
             \A j \in 1..Len(VolumeEntriesOf(Services[i][2])) :
                /\ InSeq(":", VolumeEntriesOf(Services[i][2])[j])
                /\ InSeq(VolumeSource(VolumeEntriesOf(Services[i][2])[j]),
                         keysOf(Get(c, F_volumes)))

\* C11 witness: the first entry names a declared volume and was accepted;
\* the second has a source with a directory component and made normalize
\* fail with "Bind mounts are not allowed", although it is undeclared too.
C11_Witness ==
    /\ Failed
    /\ svcIdx = 1
    /\ err = BindMountError
    /\ Len(VolumeEntriesOf(Services[1][2])) = 2
    /\ VolumeVerdict(VolumeEntriesOf(Services[1][2])[1]) = NoError
    /\ ~InSeq(VolumeSource(VolumeEntriesOf(Services[1][2])[2]), DeclaredVolumes)


\* The service has a depends_on (one the code's `if (service.depends_on)` sees).
HasDependsOn(service) == Truthy(Get(service, F_depends_on))

\* depends_on is a list without duplicates of names among names.
DependsOnOk(service, names) ==
    LET deps == Get(service, F_depends_on)
    IN  /\ deps.t = "list"
        /\ \A i, j \in 1..Len(deps.items) : deps.items[i] = deps.items[j] => i = j
        /\ \A i \in 1..Len(deps.items) :
              deps.items[i].t = "str" /\ InSeq(deps.items[i].s, names)

DependsOnErrorMessages ==
    {"Service dependencies must be an array", "Service dependencies must be unique",
     "Unknown service dependency"}

ExtraHostsList(hosts) ==
    IF hosts.t = "list" THEN hosts
    ELSE List([i \in 1..Len(hosts.pairs) |->
                 Str(hosts.pairs[i][1] \o <<":">> \o ToText(hosts.pairs[i][2]))])

\* C13: in a returned composition the extra_hosts of every service that has
\* one is a list of strings: the input list itself, or one "host:ip" string
\* per entry of the input mapping, in the mapping's key order.
C13_ExtraHostsList ==
    (Returned /\ Len(Services) = Len(InputServices)) =>
        \A i \in 1..Len(Services) :
           Truthy(Get(InputServices[i][2], F_extra_hosts)) =>
              /\ Get(Services[i][2], F_extra_hosts).t = "list"
              /\ Get(Services[i][2], F_extra_hosts)
                    = ExtraHostsList(Get(InputServices[i][2], F_extra_hosts))
              /\ \A k \in 1..Len(Get(Services[i][2], F_extra_hosts).items) :
                    /\ Get(Services[i][2], F_extra_hosts).items[k].t = "str"
                    /\ InSeq(":", Get(Services[i][2], F_extra_hosts).items[k].s)

\* C13 witness: the mapping {h: ..., g: 5} (keys not in sorted order) was
\* returned as a list of two strings, the second one "g:5".
C13_Witness ==
    /\ pc = "done"
    /\ pass = 1
    /\ Len(InputServices) = 2
    /\ Get(InputServices[1][2], F_extra_hosts).t = "dict"
    /\ keys(Get(InputServices[1][2], F_extra_hosts).pairs) = << <<"h">>, <<"g">> >>
    /\ Len(Get(Services[1][2], F_extra_hosts).items) = 2
    /\ Get(Services[1][2], F_extra_hosts).items[2] = Str(<<"g", ":", "5">>)


(***************************************************************************)
(* Claims about networks and volumes (checked under Spec).                 *)
(***************************************************************************)
\* The entries of the input's map name (networks or volumes), none when the
\* document has no such map.
InputEntries(name) ==
    IF isObject(input) /\ InputVersion # Undefined /\ Get(input, name).t = "dict"
    THEN Get(input, name).pairs
    ELSE <<>>

\* The map name of the returned composition has the keys of the input's map,
\* an empty object where the input has null, and no null entry.
NullEntriesEmptied(name) ==
    InputEntries(name) # <<>> =>
        /\ Get(c, name).t = "dict"
        /\ keys(Get(c, name).pairs) = keys(InputEntries(name))
        /\ \A i \in 1..Len(InputEntries(name)) :
              /\ Get(c, name).pairs[i][2] # Null
              /\ InputEntries(name)[i][2] = Null => Get(c, name).pairs[i][2] = Obj(<<>>)

\* C14: in a returned composition every null entry of the input's networks
\* and volumes maps is an empty object, no entry of either map is null, and
\* both maps have the keys of the input's maps, in the same order.
C14_NullEntriesBecomeEmptyObjects ==
    Returned => NullEntriesEmptied(F_networks) /\ NullEntriesEmptied(F_volumes)

\* C14 witness: a composition was returned for a document with a null
\* network and a null volume next to entries that carry labels.
C14_Witness ==
    /\ pc = "done"
    /\ pass = 1
    /\ \E i \in 1..Len(InputEntries(F_networks)) : InputEntries(F_networks)[i][2] = Null
    /\ \E i \in 1..Len(InputEntries(F_networks)) : InputEntries(F_networks)[i][2] # Null
    /\ Len(InputEntries(F_volumes)) = 2
    /\ \E i \in 1..Len(InputEntries(F_volumes)) : InputEntries(F_volumes)[i][2] = Null
    /\ \E i \in 1..Len(Get(c, F_volumes).pairs) : Get(c, F_volumes).pairs[i][2] = Obj(<<>>)


(***************************************************************************)
(* Claims about env_file paths (checked under Spec).                       *)
(***************************************************************************)
\* The paths of a service's env_file as normalizeService reads them: none
\* for a missing or empty env_file, the string itself, or the list's items.
EnvFilePathsOf(service) ==
    LET envFile == Get(service, F_env_file)
    IN  IF ~Truthy(envFile) THEN <<>>
        ELSE IF envFile.t = "list" THEN [i \in 1..Len(envFile.items) |-> envFile.items[i].s]
        ELSE <<envFile.s>>

\* The text starts with "..".
StartsWithDots(p) == Len(p) >= 2 /\ p[1] = "." /\ p[2] = "."

\* The path is, once normalized, absolute, or starts with "..", or has a '*'.
ProhibitedPath(p) ==
    \/ pathNormalize(p)[1] = "/"
    \/ StartsWithDots(pathNormalize(p))
    \/ InSeq("*", pathNormalize(p))

ProhibitedPathsOf(service) ==
    {i \in 1..Len(EnvFilePathsOf(service)) : ProhibitedPath(EnvFilePathsOf(service)[i])}

EnvFileErrorMessages ==
    {"Absolute filepath not allowed", "Directory traversing not allowed",
     "Wildcards not allowed"}

\* A normalized relative path below the project root without a wildcard:
\* no empty, "." or ".." segment (but "." itself and a trailing '/'), no
\* leading '/', no '*'.
CleanRelativePath(p) ==
    LET segs == split(p, "/")
    IN  /\ Len(p) > 0
        /\ p[1] # "/"
        /\ ~InSeq("*", p)
        /\ \A i \in 1..Len(segs) :
              /\ segs[i] # <<".", ".">>
              /\ segs[i] = <<".">> => Len(segs) = 1 \/ (Len(segs) = 2 /\ segs[2] = <<>>)
              /\ segs[i] = <<>> => i = Len(segs) /\ i > 1

\* C15: a document with a service whose env_file holds a path that is, once
\* normalized, absolute, outside the project (starts with "..") or has a
\* wildcard is never returned: normalize fails with a ValidationError, and
\* the errors about env_file paths are raised for such paths only; every
\* entry of an env_file list of a returned composition is a normalized
\* relative path inside the project root without a wildcard.
C15_EnvFilePathsValidated ==
    /\ (\E i \in 1..Len(InputServices) : ProhibitedPathsOf(InputServices[i][2]) # {})
          => ~Returned
    /\ Failed => err.kind = "ValidationError"
    /\ (Failed /\ svcIdx \in 1..Len(Services) /\ err.msg \in EnvFileErrorMessages)
          => /\ ProhibitedPathsOf(Services[svcIdx][2]) # {}
             /\ err.arg = pathNormalize(EnvFilePathsOf(Services[svcIdx][2])
                                          [Min(ProhibitedPathsOf(Services[svcIdx][2]))])
    /\ Returned =>
          \A i \in 1..Len(Services) :
             \A k \in 1..Len(EnvFilePathsOf(Services[i][2])) :
                /\ CleanRelativePath(EnvFilePathsOf(Services[i][2])[k])
                /\ pathNormalize(EnvFilePathsOf(Services[i][2])[k])
                      = EnvFilePathsOf(Services[i][2])[k]

\* C15 witness: a path that does not start with ".." as written leaves the
\* project once normalized, and normalize failed on it.
C15_Witness ==
    /\ Failed
    /\ svcIdx = 1
    /\ err.msg = "Directory traversing not allowed"
    /\ Len(EnvFilePathsOf(Services[1][2])) = 1
    /\ ~StartsWithDots(EnvFilePathsOf(Services[1][2])[1])


\* The position of the first occurrence of x in q.
FirstIndex(x, q) == Min({i \in 1..Len(q) : q[i] = x})

\* out is a list of the paths of q, normalized, each once, in the order of
\* their first occurrence in q.
UniqueNormalizedPaths(out, q) ==
    LET paths == [i \in 1..Len(q) |-> Str(pathNormalize(q[i]))]
    IN  /\ out.t = "list"
        /\ {out.items[i] : i \in 1..Len(out.items)} = {paths[i] : i \in 1..Len(paths)}
        /\ \A i, j \in 1..Len(out.items) :
              i < j => /\ out.items[i] # out.items[j]
                       /\ FirstIndex(out.items[i], paths) < FirstIndex(out.items[j], paths)

\* The paths of an env_file value: the items of a list, a string itself.
PathsOfValue(envFile) ==
    IF envFile.t = "list" THEN [i \in 1..Len(envFile.items) |-> envFile.items[i].s]
    ELSE <<envFile.s>>

\* C16 as stated: in a returned composition the env_file of every service
\* that has the property is the list of its normalized paths, each once, in
\* the order of their first occurrence; a single string gives a list of one.
C16_EnvFileIsUniqueList ==
    (Returned /\ Len(Services) = Len(InputServices)) =>
        \A i \in 1..Len(Services) :
           Get(InputServices[i][2], F_env_file) # Undefined =>
              UniqueNormalizedPaths(Get(Services[i][2], F_env_file),
                                    PathsOfValue(Get(InputServices[i][2], F_env_file)))

\* C16 amended: the same for every service whose env_file is a list or a
\* non-empty string; an env_file that is the empty string is returned as it
\* is (the string '', not a list).
C16_NonEmptyEnvFileIsUniqueList ==
    (Returned /\ Len(Services) = Len(InputServices)) =>
        \A i \in 1..Len(Services) :
           /\ Truthy(Get(InputServices[i][2], F_env_file)) =>
                 /\ UniqueNormalizedPaths(Get(Services[i][2], F_env_file),
                                          PathsOfValue(Get(InputServices[i][2], F_env_file)))
                 /\ Get(InputServices[i][2], F_env_file).t = "str"
                       => Len(Get(Services[i][2], F_env_file).items) = 1
           /\ Get(InputServices[i][2], F_env_file) = Str(<<>>)
                 => Get(Services[i][2], F_env_file) = Str(<<>>)

\* C16 witness: two spellings of one path were returned as one entry.
C16_Witness ==
    /\ pc = "done"
    /\ pass = 1
    /\ Len(InputServices) = 2
    /\ Get(InputServices[1][2], F_env_file).t = "list"
    /\ Len(Get(InputServices[1][2], F_env_file).items) = 2
    /\ Get(InputServices[1][2], F_env_file).items[1]
          # Get(InputServices[1][2], F_env_file).items[2]
    /\ Len(Get(Services[1][2], F_env_file).items) = 1

(***************************************************************************)
(* Env files (SpecEnv)                                                     *)
(***************************************************************************)
\* readEnvFilesFromComposition went through every service.
AllFilesRead == pc = "read" /\ rdSvc > Len(readServices)

\* normalize with a resolver resolved.
Expanded == pc = "expanded"

\* The distinct normalized paths the services' env_file lists name.
ReferencedPaths ==
    UNION {{envFilePathsOf(readServices[i][2])[j].s :
                j \in 1..Len(envFilePathsOf(readServices[i][2]))} :
           i \in 1..Len(readServices)}

\* The number of resolver calls made for a path.
FetchCount(path) == Cardinality({i \in 1..Len(fetched) : fetched[i] = path})

\* C17: when every service's env_file list has been gone through, the
\* resolver has been invoked exactly once for each distinct normalized path
\* that some service references, and for nothing else; the one parsed result
\* stored under the path is what every referencing service merges.
C17_ResolverOncePerPath ==
    AllFilesRead =>
        /\ \A path \in ReferencedPaths : FetchCount(path) = 1
        /\ \A i \in 1..Len(fetched) : fetched[i] \in ReferencedPaths

\* What the code does keep: no path is fetched twice, and every referenced
\* path that is not the name of an inherited property is fetched.
C17_AtMostOncePerPath ==
    /\ \A i, j \in 1..Len(fetched) : fetched[i] = fetched[j] => i = j
    /\ AllFilesRead =>
          \A path \in ReferencedPaths \ ObjectPrototypeNames : FetchCount(path) = 1

\* Two services reference the same path and it was fetched once.
C17_SharedPathFetchedOnce ==
    /\ AllFilesRead
    /\ Len(readServices) = 2
    /\ \E path \in ReferencedPaths :
          /\ InSeq(Str(path), envFilePathsOf(readServices[1][2]))
          /\ InSeq(Str(path), envFilePathsOf(readServices[2][2]))
          /\ FetchCount(path) = 1

\* The composition normalize resolves with once every file has been read.
ExpandedServices ==
    Get(assignExpandedEnvFilesToComposition(c, envFileVariables), F_services).pairs

\* The inline environment of a normalized service, as pairs.
InlineEnvironment(service) ==
    IF Get(service, F_environment).t = "dict"
    THEN Get(service, F_environment).pairs
    ELSE <<>>

\* The variables stored for a path, as pairs.
FileVariables(path) ==
    IF HasKey(envFileVariables.pairs, path)
    THEN Lookup(envFileVariables.pairs, path).pairs
    ELSE <<>>

\* The writers of a service's environment in their order: the inline
\* environment, then the files of its env_file list.
Writers(service) ==
    <<InlineEnvironment(service)>>
        \o [j \in 1..Len(envFilePathsOf(service)) |->
                FileVariables(envFilePathsOf(service)[j].s)]

WriterKeys(writers) == UNION {KeySet(writers[j]) : j \in 1..Len(writers)}

\* The value the first writer that has the key gives it.
FirstWriterValue(writers, key) ==
    Lookup(writers[Min({j \in 1..Len(writers) : HasKey(writers[j], key)})], key)

\* The environment of the expanded service is the first-writer-wins union
\* of the writers, over the given keys.
FirstWriterUnion(service, expanded, wanted) ==
    LET environment == InlineEnvironment(expanded)
        writers == Writers(service)
    IN  /\ KeySet(environment) = wanted
        /\ \A key \in wanted : Lookup(environment, key) = FirstWriterValue(writers, key)

\* C18: after the expansion, the environment of each service with env_file
\* paths has as keys the union of its inline keys and the keys of its files,
\* each with the value of the first writer in the order inline environment,
\* then files as listed.
C18_EnvironmentIsFirstWriterUnion ==
    AllFilesRead =>
        \A i \in 1..Len(readServices) :
            envFilePathsOf(readServices[i][2]) # <<>> =>
                FirstWriterUnion(readServices[i][2], ExpandedServices[i][2],
                                 WriterKeys(Writers(readServices[i][2])))

\* What the code does keep: the same over the keys that are not the name of
\* an inherited property, unless the inline environment has them.
C18_OwnNamesFirstWriterUnion ==
    AllFilesRead =>
        \A i \in 1..Len(readServices) :
            envFilePathsOf(readServices[i][2]) # <<>> =>
                LET service == readServices[i][2] IN
                FirstWriterUnion(service, ExpandedServices[i][2],
                    (WriterKeys(Writers(service)) \ ObjectPrototypeNames)
                        \cup KeySet(InlineEnvironment(service)))

\* Two files and the inline environment all have the key A.
C18_ThreeWritersCollide ==
    /\ AllFilesRead
    /\ \E i \in 1..Len(readServices) :
          LET writers == Writers(readServices[i][2]) IN
          /\ Len(writers) = 3
          /\ \A j \in 1..3 : HasKey(writers[j], <<"A">>)
          /\ Lookup(writers[2], <<"A">>) # Lookup(writers[3], <<"A">>)

\* The list-form key/value rule applied to a list of lines, later lines
\* overwriting earlier ones with the same key.
LastWinsMapping(lines) ==
    normalizeKeyValuePairs(List([j \in 1..Len(lines) |-> Str(lines[j])]), "=").pairs

NonEmptyLines(lines) == SelectSeq(lines, LAMBDA line : line # <<>>)

SameMapping(p, q) ==
    /\ KeySet(p) = KeySet(q)
    /\ \A key \in KeySet(p) : Lookup(p, key) = Lookup(q, key)

\* C19: the variables stored for a file that was read are the last-wins
\* mapping of its non-empty lines; an empty line gives no variable, in
\* particular none with an empty name.
C19_VariablesOfNonEmptyLines ==
    \A path \in EnvPaths :
        HasKey(envFileVariables.pairs, path) =>
            SameMapping(FileVariables(path),
                        LastWinsMapping(NonEmptyLines(files[path].lines)))

\* What the code does keep: the last-wins mapping of all the lines, the
\* empty ones included.
C19_VariablesOfAllLines ==
    \A path \in EnvPaths :
        HasKey(envFileVariables.pairs, path) =>
            SameMapping(FileVariables(path), LastWinsMapping(files[path].lines))

\* A file in which a later line overwrote an earlier one was read.
C19_LaterLineOverwrote ==
    /\ HasKey(envFileVariables.pairs, PathE)
    /\ files[PathE].lines = << <<"A", "=", "1">>, <<"A", "=", "2">> >>
    /\ FileVariables(PathE) = << <<<<"A">>, Str(<<"2">>)>> >>

\* normalize without a resolver returned.
ReturnedSync == pc = "done" /\ ~resolver

\* C20: the composition an env-file-aware normalize resolves with has no
\* env_file property on any service, whether the service declared one or not;
\* the composition the synchronous normalize returns keeps the property on
\* every service that declared it, as the list of its normalized paths.
C20_EnvFileRemovedOnlyWhenExpanded ==
    /\ Expanded =>
          \A i \in 1..Len(Services) : ~HasKey(Services[i][2].pairs, F_env_file)
    /\ (ReturnedSync /\ Len(Services) = Len(InputServices)) =>
          \A i \in 1..Len(Services) :
             /\ HasKey(Services[i][2].pairs, F_env_file)
                   <=> HasKey(InputServices[i][2].pairs, F_env_file)
             /\ Truthy(Get(InputServices[i][2], F_env_file)) =>
                   UniqueNormalizedPaths(Get(Services[i][2], F_env_file),
                                         PathsOfValue(Get(InputServices[i][2], F_env_file)))

\* C20 witness: an expansion resolved for a document in which one service
\* declared env_file files that were merged and the other declared none.
C20_Witness ==
    /\ Expanded
    /\ Len(InputServices) = 2
    /\ Len(Services) = 2
    /\ Truthy(Get(InputServices[1][2], F_env_file))
    /\ ~HasKey(InputServices[2][2].pairs, F_env_file)
    /\ HasKey(InlineEnvironment(Services[1][2]), <<"D">>)
    /\ \A i \in 1..2 : ~HasKey(Services[i][2].pairs, F_env_file)

\* The synchronous call returned the same kind of document with its
\* env_file list.
C20_SyncKeepsList ==
    /\ ReturnedSync
    /\ Len(InputServices) = 2
    /\ Len(Services) = 2
    /\ Get(InputServices[1][2], F_env_file) = Str(<<".", "/", "e">>)
    /\ Get(Services[1][2], F_env_file) = TextList(<<PathE>>)

\* The promise of the env-file-aware normalize rejected.
Rejected == pc = "rejected"

\* The environment the synchronous normalization gives a service of the
\* input: the normalized inline environment, or the property as it was.
InlineOnly(inputService) ==
    IF Truthy(Get(inputService, F_environment))
    THEN normalizeKeyValuePairs(Get(inputService, F_environment), "=")
    ELSE Get(inputService, F_environment)

\* C21: when the resolver or its stream fails for a path, normalize rejects
\* with that failure; the composition has then received no env-file
\* variable in any service's environment, and every service that declared
\* env_file still has it (nothing is merged before every file was read).
C21_FailureBeforeAnyMerge ==
    Rejected =>
        /\ err = PlainError("read error")
        /\ Len(Services) = Len(InputServices)
        /\ \A i \in 1..Len(Services) :
              /\ Get(Services[i][2], F_environment) = InlineOnly(InputServices[i][2])
              /\ HasKey(Services[i][2].pairs, F_env_file)
                    <=> HasKey(InputServices[i][2].pairs, F_env_file)

\* C21 witness: the second file of a service failed after its first file had
\* been read.
C21_Witness ==
    /\ Rejected
    /\ fetched = <<PathE, PathF>>
    /\ HasKey(envFileVariables.pairs, PathE)
    /\ Len(Services) = 2
    /\ Get(Services[1][2], F_env_file) = TextList(<<PathE, PathF>>)

\* The normalized paths of the env_file values of the input's services.
InputNormalizedPaths ==
    UNION {{pathNormalize(PathsOfValue(Get(InputServices[i][2], F_env_file))[j]) :
                j \in 1..Len(PathsOfValue(Get(InputServices[i][2], F_env_file)))} :
           i \in {k \in 1..Len(InputServices) :
                    Truthy(Get(InputServices[k][2], F_env_file))}}

\* No service of the input has an env_file property.
NoEnvFileDeclared ==
    \A i \in 1..Len(InputServices) : ~HasKey(InputServices[i][2].pairs, F_env_file)

\* normalizeObjectToComposition has returned and expandContext is running or
\* has ended.
InExpandContext == pc \in {"read", "awaitFile", "rejected", "expanded"}

\* C22: the resolver is invoked only with normalized paths of some service's
\* env_file, and only once validation and field normalization of the whole
\* document are through; when no service declares env_file it is never
\* invoked and the resolved composition has the environments of the
\* synchronous normalize.
C22_ResolverAfterNormalization ==
    /\ \A i \in 1..Len(fetched) : fetched[i] \in InputNormalizedPaths
    /\ fetched # <<>> => InExpandContext
    /\ NoEnvFileDeclared =>
          /\ fetched = <<>>
          /\ (Expanded /\ Len(Services) = Len(InputServices)) =>
                \A i \in 1..Len(Services) :
                    Get(Services[i][2], F_environment) = InlineOnly(InputServices[i][2])

\* C22 witness: the resolver was invoked with the normalized form of a path
\* the document spells "./e".
C22_Witness ==
    /\ fetched = <<PathE>>
    /\ Len(InputServices) = 2
    /\ Get(InputServices[1][2], F_env_file) = Str(<<".", "/", "e">>)

\* An expansion resolved for a document without env_file that has an inline
\* environment.
C22_NothingToRead ==
    /\ Expanded
    /\ NoEnvFileDeclared
    /\ fetched = <<>>
    /\ Len(Services) = 2
    /\ Get(Services[1][2], F_environment).t = "dict"

(***************************************************************************)
(* The caller's object (Spec)                                              *)
(***************************************************************************)
CompositionFields == {F_version, F_services, F_networks, F_volumes}

C23_VersionedInPlace ==
    /\ pc = "done"
    /\ pass = 1
    /\ InputVersion = Num(2)
    /\ caller # input
    /\ caller = c

(***************************************************************************)
(* Interpolation (SpecExpand)                                              *)
(***************************************************************************)
Names == {NameV, NameE, NameU}

ExpandReturned == exPc = "returned"

IsDefined(name) == name \in DOMAIN TestLookup

ValueOf(name) == IF IsDefined(name) THEN TestLookup[name] ELSE <<>>

IsNonEmpty(name) == IsDefined(name) /\ TestLookup[name] # <<>>

\* The template that is one braced reference with an operator and a payload.
Reference(name, op, payload) == <<"$">> \o Braced(name \o op \o payload)

\* C24: "${NAME-default}" expands to the value of NAME whenever NAME is
\* defined, also when the value is empty, and to default only when NAME is
\* undefined; "${NAME:-default}" expands to the value only when NAME is
\* defined and not empty, and to default otherwise. The default is inserted
\* as it is written, references in it are not expanded.
C24_DefaultForms ==
    ExpandReturned =>
        \A name \in Names, default \in Payloads :
            /\ exIn = Reference(name, <<"-">>, default) =>
                  exOut = Ok(IF IsDefined(name) THEN ValueOf(name) ELSE default)
            /\ exIn = Reference(name, <<":", "-">>, default) =>
                  exOut = Ok(IF IsNonEmpty(name) THEN ValueOf(name) ELSE default)

\* C24 witness: "${E-#}" with E defined as the empty string gave the empty
\* string.
C24_Witness ==
    /\ ExpandReturned
    /\ exIn = Reference(NameE, <<"-">>, <<"#">>)
    /\ exOut = Ok(<<>>)

\* "${U:-$V}" with U undefined gave the text "$V".
C24_DefaultNotExpanded ==
    /\ ExpandReturned
    /\ exIn = Reference(NameU, <<":", "-">>, <<"$", "V">>)
    /\ exOut = Ok(<<"$", "V">>)

\* C25: "${NAME?message}" fails with an ExpansionError carrying message
\* exactly when NAME is undefined, and otherwise expands to the value, which
\* may be empty; "${NAME:?message}" fails with an ExpansionError carrying
\* message exactly when NAME is undefined or its value is empty.
C25_ErrorForms ==
    ExpandReturned =>
        \A name \in Names, message \in Payloads :
            /\ exIn = Reference(name, <<"?">>, message) =>
                  /\ exOut.err = ExpansionError(message) <=> ~IsDefined(name)
                  /\ IsDefined(name) => exOut = Ok(ValueOf(name))
            /\ exIn = Reference(name, <<":", "?">>, message) =>
                  /\ exOut.err = ExpansionError(message) <=> ~IsNonEmpty(name)
                  /\ IsNonEmpty(name) => exOut = Ok(ValueOf(name))

\* C25 witness: "${E?#}" with E defined as the empty string gave the empty
\* string and no error.
C25_Witness ==
    /\ ExpandReturned
    /\ exIn = Reference(NameE, <<"?">>, <<"#">>)
    /\ exOut = Ok(<<>>)

\* "${E:?#}" failed with the message "#".
C25_EmptyFails ==
    /\ ExpandReturned
    /\ exIn = Reference(NameE, <<":", "?">>, <<"#">>)
    /\ exOut.err = ExpansionError(<<"#">>)

ExpandedAffix(text) ==
    IF text = <<"$", "$", "E", "#">> THEN <<"$", "E", "#">>
    ELSE IF text = <<"#", "$", "V">> THEN <<"#">> \o ValueOfV
    ELSE text

C28_EnvironmentValuesExpanded ==
    AllFilesRead =>
        \A i \in 1..Len(readServices) :
            \A key \in KeySet(InlineEnvironment(ExpandedServices[i][2])) :
                Ok(Lookup(InlineEnvironment(ExpandedServices[i][2]), key).s)
                    = expand(FirstWriterValue(Writers(readServices[i][2]), key).s,
                             TestLookup)

\* What the code does: every environment value is returned as its first
\* writer has it.
C28_EnvironmentValuesCopied ==
    AllFilesRead =>
        \A i \in 1..Len(readServices) :
            \A key \in KeySet(InlineEnvironment(ExpandedServices[i][2])) :
                Lookup(InlineEnvironment(ExpandedServices[i][2]), key)
                    = FirstWriterValue(Writers(readServices[i][2]), key)

\* An expansion resolved with an inline value "${V}" and a file value "$V".
C28_ReferencesReturned ==
    /\ Expanded
    /\ Len(Services) = 1
    /\ HasKey(InlineEnvironment(Services[1][2]), <<"A">>)
    /\ Lookup(InlineEnvironment(Services[1][2]), <<"A">>) = Str(<<"$", "{", "V", "}">>)

(***************************************************************************)
(* The migration chain                                                     *)
(***************************************************************************)
\* The document with which the switch is entered: the input with its
\* version coerced to a string and its null networks and volumes replaced.
DocumentAtSwitch ==
    preflight(version,
              IF InputVersion = Undefined THEN input
              ELSE Set(input, F_version, coercedVersion(input)))

\* The place of the call in the chain: 1 in the v1 case, 2 in the v2.0 case,
\* 3 in the v2.1 case before the field normalization, 0 elsewhere.
ChainPlace ==
    IF pc = "case_v1_0" THEN 1
    ELSE IF pc = "case_v2_0" THEN 2
    ELSE IF pc = "case_v2_1" THEN 3
    ELSE 0

\* The v1 step wraps the whole document as the services; the v2.0 step
\* changes the version and nothing else; the v2.1 case is entered with what
\* the loop form of the migration gives, version "2.1"; fields are
\* normalized only then.
ChainResult ==
    /\ (pc = "case_v2_0" /\ version = v1_0) =>
          c = Obj(<< <<F_version, Str(v2_0)>>, <<F_services, DocumentAtSwitch>> >>)
    /\ (pc = "case_v2_0" /\ version = v2_0) => c = DocumentAtSwitch
    /\ pc = "case_v2_1" =>
          /\ c = migrateLoop(version, DocumentAtSwitch)
          /\ version = v2_0 => c = Set(DocumentAtSwitch, F_version, Str(v2_1))
          /\ version = v2_1 => c = DocumentAtSwitch
    /\ pc = "services" => Get(c, F_version) = Str(v2_1)

\* A step leaves the v1 case for the v2.0 case and the v2.0 case for the
\* v2.1 case; the v2.1 case is left for the field normalization, never for
\* an earlier case.
ChainStep ==
    /\ ChainPlace \in {1, 2} => ChainPlace' = ChainPlace + 1
    /\ ChainPlace = 3 => ChainPlace' = 0 /\ pc' \in {"services", "failed"}
    /\ pc = "services" => ChainPlace' = 0

\* C29: the migration is the chain v1 -> v2.0 -> v2.1: the version only
\* advances along it, every step taken in the v1 or the v2.0 case enters the
\* next case, so that the v2.1 case is reached after at most two steps;
\* the v1 step wraps the whole input as the services, the v2.0 step
\* changes only the version, fields are normalized once, after v2.1 is
\* reached; the switch with fall-through gives what the loop form gives.
C29_MigrationChain ==
    /\ []ChainResult
    /\ [][ChainStep]_vars

\* C29 witness: a document without version field has reached the v2.1 case
\* through both steps.
C29_Witness ==
    /\ pc = "case_v2_1"
    /\ version = v1_0
    /\ pass = 1
    /\ Len(InputServices) = 2
    /\ Get(c, F_version) = Str(v2_1)
    /\ Get(c, F_services) = DocumentAtSwitch

(***************************************************************************)
(* The order of the fetches                                                *)
(***************************************************************************)
\* The env_file paths of the first n services, in the order of the loops.
RECURSIVE PathsOfServices(_)
PathsOfServices(n) ==
    IF n = 0 THEN <<>>
    ELSE PathsOfServices(n - 1)
            \o [j \in 1..Len(envFilePathsOf(readServices[n][2])) |->
                    envFilePathsOf(readServices[n][2])[j].s]

\* The paths the loops have visited: those of the services before rdSvc,
\* those before rdPath of the service at rdSvc, and the path at rdPath once
\* its fetch has started.
VisitedPaths ==
    IF rdSvc > Len(readServices) THEN PathsOfServices(Len(readServices))
    ELSE PathsOfServices(rdSvc - 1)
            \o [j \in 1..(IF pc \in {"awaitFile", "rejected"} THEN rdPath ELSE rdPath - 1) |->
                    envFilePathsOf(readServices[rdSvc][2])[j].s]

\* A sequence without the later occurrences of its elements.
RECURSIVE FirstOccurrences(_)
FirstOccurrences(seq) ==
    IF Len(seq) = 0 THEN <<>>
    ELSE LET before == FirstOccurrences(SubSeq(seq, 1, Len(seq) - 1))
         IN  IF \E i \in 1..Len(before) : before[i] = seq[Len(seq)]
             THEN before
             ELSE Append(before, seq[Len(seq)])

\* The sequence without the names every object inherits.
OwnNamesOnly(seq) == SelectSeq(seq, LAMBDA path : path \notin ObjectPrototypeNames)

\* The resolver calls whose file has neither been read to its end and stored
\* nor failed.
FetchesInProgress ==
    Len(fetched) - Cardinality(KeySet(envFileVariables.pairs))
                 - (IF pc = "rejected" THEN 1 ELSE 0)

\* At most one fetch is in progress, and one is exactly while the call
\* awaits a file; a fetch starts only when every file fetched before it has
\* been read to its end; the call that rejected made its last resolver call
\* for the file that failed.
OneFetchAtATime ==
    /\ FetchesInProgress \in {0, 1}
    /\ FetchesInProgress = 1 <=> pc = "awaitFile"
    /\ pc = "rejected" =>
          /\ Len(fetched) > 0
          /\ ~files[fetched[Len(fetched)]].ok
          /\ \A i \in 1..(Len(fetched) - 1) : files[fetched[i]].ok

\* readEnvFilesFromComposition is running or has rejected: the services
\* still have their env_file lists.
InReadEnvFiles == pc \in {"read", "awaitFile", "rejected"}

\* C30: the fetches are strictly sequential: at most one resolver call or
\* file read is in progress at any time, a fetch starts only after the file
\* fetched before it has been read to its end, no resolver call follows the
\* first failing fetch, and the paths fetched are the paths visited in
\* service order and then list order, each at its first occurrence (a path
\* is skipped only when it was fetched before).
C30_SequentialInReferenceOrder ==
    /\ InExpandContext => OneFetchAtATime
    /\ InReadEnvFiles => fetched = FirstOccurrences(VisitedPaths)

\* What the code does keep: the same, with the paths named like an inherited
\* property skipped although never fetched.
C30_SequentialOwnNamesInOrder ==
    /\ InExpandContext => OneFetchAtATime
    /\ InReadEnvFiles => fetched = FirstOccurrences(OwnNamesOnly(VisitedPaths))

\* Two files were fetched one after the other, the second one for the second
\* service, the first one read to its end.
C30_SecondFetchAfterFirstRead ==
    /\ pc = "awaitFile"
    /\ rdSvc = 2
    /\ Len(fetched) = 2
    /\ fetched[1] \in KeySet(envFileVariables.pairs)

\* A path fetched before was skipped.
C30_FetchedPathSkipped ==
    /\ InReadEnvFiles
    /\ Len(fetched) = 2
    /\ Len(VisitedPaths) > 2
    /\ \A i \in 1..Len(VisitedPaths) : VisitedPaths[i] \notin ObjectPrototypeNames

\* A call rejected by its second fetch.
C30_RejectedBySecondFetch ==
    /\ pc = "rejected"
    /\ Len(fetched) = 2

=============================================================================
